---- MODULE Spec2Model ----
(***************************************************************************)
(* SpecSync: the change-to-specification pipeline.                         *)
(*   LLMClient        src/src/llm-client.js                                *)
(*   SpecAnalyzer     src/src/spec-analyzer.js                             *)
(*   ASTExtractor     src/unnamed/part_002 (second class of the file)      *)
(* Strings are TLA+ strings; template literals are modelled with \o.       *)
(***************************************************************************)
EXTENDS Integers, Sequences, FiniteSets, TLC

VARIABLES
  openai,      \* LLMClient.openai is set (OPENAI_API_KEY present)
  anthropic,   \* LLMClient.anthropic is set (ANTHROPIC_API_KEY present)
  specCache,   \* SpecAnalyzer.specCache : cacheKey -> <<>> or <<suggestion>>
  backendCalls,\* history: number of backend invocations made per cacheKey
  req,         \* the generateSpecSuggestion invocations of the event handlers
  pipe,        \* one handlePullRequest run: extractAST, then analyzeChanges
  mock,        \* generateMockSpec applied to a context
  parse,       \* parseLLMResponse applied to a backend response
  drift,       \* SpecCoverageTracker.analyzeFunctionDrift applied to a function
  lean,        \* Lean4Generator.generateHelperLemmas applied to a record's lists
  diff,        \* DiffParser.parseFileDiff applied to a file and a diff
  extracted,   \* ASTExtractor.analyzeFunction applied to a FunctionChange
  mapped,      \* Lean4Generator.mapTypeToLean applied to a type name
  feedback,    \* DeveloperFeedback: one processQueuedNotifications run
  emitted      \* generateLean4File's text, then parseSpecFile applied to it

vars == <<openai, anthropic, specCache, backendCalls, req, pipe, mock, parse,
         drift, lean, diff, extracted, mapped, feedback, emitted>>

(***************************************************************************)
(* Bounds of the model.                                                    *)
(***************************************************************************)
MaxParams == 3       \* parameters of a function
MaxGuards == 1       \* conditional guards of a function
MaxReturns == 2      \* early returns of a function
MaxComplexity == 6   \* contiguous range of complexity values
MaxBatch == 3        \* FunctionChanges of one pull request
MaxRequests == 2     \* generateSpecSuggestion invocations
MaxTokens == 4       \* tokens of a function body (drift detection)
MaxPrevious == 4     \* complexity recorded in a prior spec
MaxInvariants == 2   \* invariants of a record handed to the Lean4 generator
MaxEdgeCases == 3    \* edge cases of a record handed to the Lean4 generator
MaxLines == 4        \* lines of a diff
MaxLoops == 2        \* loops of a function
MaxNesting == 2      \* array notations around a base type name
MaxPreconditions == 2 \* preconditions of a spec written to a Lean4 file
MaxQueued == 3       \* notifications in the queue at the call

Min(a, b) == IF a < b THEN a ELSE b

SeqsUpTo(S, n) == UNION { [1..k -> S] : k \in 0..n }

(***************************************************************************)
(* JavaScript values as they come out of JSON.parse.                       *)
(***************************************************************************)
JsUndefined == [t |-> "undefined", l |-> <<>>, s |-> "", n |-> 0]
JsArray(x) == [t |-> "array", l |-> x, s |-> "", n |-> 0]
JsString(x) == [t |-> "string", l |-> <<>>, s |-> x, n |-> 0]
JsNumber(x) == [t |-> "number", l |-> <<>>, s |-> "", n |-> x]
JsComplexity(time, space) == [t |-> "object", time |-> time, space |-> space]
JsSecurity(v, m) == [t |-> "object", vulnerabilities |-> v, mitigations |-> m]
JsNoComplexity == [t |-> "undefined", time |-> "", space |-> ""]
JsNoSecurity == [t |-> "undefined", vulnerabilities |-> <<>>, mitigations |-> <<>>]

\* ToBoolean: undefined, "" and 0 are falsy; arrays (also empty) and objects
\* are truthy.
Truthy(v) ==
  CASE v.t = "undefined" -> FALSE
    [] v.t = "string" -> v.s # ""
    [] v.t = "number" -> v.n # 0
    [] OTHER -> TRUE

IsArray(v) == v.t = "array"

(***************************************************************************)
(* LLMClient.generateMockSpec                                              *)
(***************************************************************************)
\* the context `{}` after the destructuring defaults of line 248
EmptyContext ==
  [inputTypes |-> <<>>, conditionalGuards |-> <<>>, earlyReturns |-> <<>>,
   complexity |-> 1]

RECURSIVE MockPreconditions(_)
MockPreconditions(inputTypes) ==
  IF inputTypes = <<>> THEN <<>>
  ELSE LET input == Head(inputTypes)
           typed == IF input.type # "" /\ input.type # "any"
                    THEN <<input.name \o " is of type " \o input.type>>
                    ELSE <<>>
           needed == IF input.required # FALSE
                     THEN <<input.name \o " is not null/undefined">>
                     ELSE <<>>
       IN typed \o needed \o MockPreconditions(Tail(inputTypes))

RECURSIVE MockPostconditions(_)
MockPostconditions(earlyReturns) ==
  IF earlyReturns = <<>> THEN <<>>
  ELSE LET earlyReturn == Head(earlyReturns)
           one == IF earlyReturn.value # ""
                  THEN <<"Function may return " \o earlyReturn.value
                           \o " under certain conditions">>
                  ELSE <<>>
       IN one \o MockPostconditions(Tail(earlyReturns))

MockInvariants(complexity) ==
  IF complexity > 5 THEN <<"Function maintains internal state consistency">>
  ELSE <<>>

RECURSIVE MockGuardCases(_)
MockGuardCases(conditionalGuards) ==
  IF conditionalGuards = <<>> THEN <<>>
  ELSE <<"Handle case where " \o Head(conditionalGuards).condition \o " is false">>
         \o MockGuardCases(Tail(conditionalGuards))

MockEdgeCases(context) ==
  MockGuardCases(context.conditionalGuards)
    \o (IF Len(context.inputTypes) > 0
        THEN <<"Handle empty/null input values", "Handle boundary conditions">>
        ELSE <<>>)

MockConfidence(complexity) == Min(85, 100 - complexity * 5)

MockSecurity ==
  [vulnerabilities |-> <<"Potential input validation bypass",
                         "Possible information disclosure">>,
   mitigations |-> <<"Implement strict input validation",
                     "Use parameterized queries", "Validate all inputs">>]

generateMockSpec(context) ==
  LET preconditions == MockPreconditions(context.inputTypes)
      postconditions == MockPostconditions(context.earlyReturns)
      invariants == MockInvariants(context.complexity)
      edgeCases == MockEdgeCases(context)
  IN [preconditions |-> IF Len(preconditions) > 0 THEN preconditions
                        ELSE <<"No specific preconditions identified">>,
      postconditions |-> IF Len(postconditions) > 0 THEN postconditions
                         ELSE <<"Function completes execution">>,
      invariants |-> IF Len(invariants) > 0 THEN invariants
                     ELSE <<"No specific invariants identified">>,
      edgeCases |-> IF Len(edgeCases) > 0 THEN edgeCases
                    ELSE <<"Consider null/undefined inputs">>,
      complexity |-> [time |-> IF context.complexity > 3 THEN "O(n)" ELSE "O(1)",
                      space |-> "O(1)"],
      security |-> MockSecurity,
      confidence |-> MockConfidence(context.complexity),
      reasoning |-> "Mock analysis of function with "
                      \o ToString(Len(context.inputTypes)) \o " inputs, "
                      \o ToString(Len(context.conditionalGuards))
                      \o " conditionals, and complexity "
                      \o ToString(context.complexity)
                      \o ". Advanced security and performance analysis included."]

(***************************************************************************)
(* LLMClient.parseLLMResponse                                              *)
(***************************************************************************)
\* A backend response text: "null" (no content), "text" (no {...} in it),
\* "badjson" ({...} that JSON.parse rejects) or "json" (an object, `obj`).
RequiredFields == {"preconditions", "postconditions", "invariants", "edgeCases",
                   "confidence"}

MissingFields(parsed) == { field \in RequiredFields : ~Truthy(parsed[field]) }

\* parseLLMResponse with the Array.isArray tests of lines 222-225 left out
parseLLMResponseNoArrayCheck(response) ==
  IF response.kind = "json" /\ MissingFields(response.obj) = {}
  THEN LET parsed == response.obj
       IN [preconditions |-> IF IsArray(parsed.preconditions)
                             THEN parsed.preconditions.l ELSE parsed.preconditions.s,
           postconditions |-> IF IsArray(parsed.postconditions)
                              THEN parsed.postconditions.l ELSE parsed.postconditions.s,
           invariants |-> IF IsArray(parsed.invariants)
                          THEN parsed.invariants.l ELSE parsed.invariants.s,
           edgeCases |-> IF IsArray(parsed.edgeCases)
                         THEN parsed.edgeCases.l ELSE parsed.edgeCases.s,
           complexity |-> IF Truthy(parsed.complexity)
                          THEN [time |-> parsed.complexity.time,
                                space |-> parsed.complexity.space]
                          ELSE [time |-> "O(1)", space |-> "O(1)"],
           security |-> IF Truthy(parsed.security)
                        THEN [vulnerabilities |-> parsed.security.vulnerabilities,
                              mitigations |-> parsed.security.mitigations]
                        ELSE [vulnerabilities |-> <<>>, mitigations |-> <<>>],
           confidence |-> IF parsed.confidence.t = "number"
                          THEN parsed.confidence.n ELSE 50,
           reasoning |-> IF Truthy(parsed.reasoning)
                         THEN parsed.reasoning.s ELSE "Generated by LLM"]
  ELSE generateMockSpec(EmptyContext)

parseLLMResponse(response) ==
  IF response.kind = "json" /\ MissingFields(response.obj) = {}
  THEN LET parsed == response.obj
       IN [preconditions |-> IF IsArray(parsed.preconditions)
                             THEN parsed.preconditions.l ELSE <<>>,
           postconditions |-> IF IsArray(parsed.postconditions)
                              THEN parsed.postconditions.l ELSE <<>>,
           invariants |-> IF IsArray(parsed.invariants)
                          THEN parsed.invariants.l ELSE <<>>,
           edgeCases |-> IF IsArray(parsed.edgeCases)
                         THEN parsed.edgeCases.l ELSE <<>>,
           complexity |-> IF Truthy(parsed.complexity)
                          THEN [time |-> parsed.complexity.time,
                                space |-> parsed.complexity.space]
                          ELSE [time |-> "O(1)", space |-> "O(1)"],
           security |-> IF Truthy(parsed.security)
                        THEN [vulnerabilities |-> parsed.security.vulnerabilities,
                              mitigations |-> parsed.security.mitigations]
                        ELSE [vulnerabilities |-> <<>>, mitigations |-> <<>>],
           confidence |-> IF parsed.confidence.t = "number"
                          THEN parsed.confidence.n ELSE 50,
           reasoning |-> IF Truthy(parsed.reasoning)
                         THEN parsed.reasoning.s ELSE "Generated by LLM"]
  ELSE generateMockSpec(EmptyContext)

(***************************************************************************)
(* LLMClient.generateSpec.  A backend call is an await: the call is made   *)
(* in one step and its outcome arrives in a later one.  An outcome is      *)
(* "throws" (the promise rejects), "answers" (it resolves with a response  *)
(* text) or "silent" (it never settles).                                   *)
(***************************************************************************)
NoObject ==
  [preconditions |-> JsUndefined, postconditions |-> JsUndefined,
   invariants |-> JsUndefined, edgeCases |-> JsUndefined,
   complexity |-> JsNoComplexity, security |-> JsNoSecurity,
   confidence |-> JsUndefined, reasoning |-> JsUndefined]
NotJson(kind) == [kind |-> kind, obj |-> NoObject]
Json(obj) == [kind |-> "json", obj |-> obj]
NoResponse == NotJson("null")
Throws == [kind |-> "throws", response |-> NoResponse]
Silent == [kind |-> "silent", response |-> NoResponse]
Answers(response) == [kind |-> "answers", response |-> response]

Returned(spec) == [threw |-> FALSE, spec |-> <<spec>>]
Raised == [threw |-> TRUE, spec |-> <<>>]

\* lines 46-52: the one backend generateSpec calls
SelectBackend(hasOpenai, hasAnthropic) ==
  IF hasOpenai THEN "openai" ELSE IF hasAnthropic THEN "anthropic" ELSE "none"

generateWithOpenAI(context, outcome) ==
  IF outcome.kind = "throws" THEN Raised
  ELSE Returned(parseLLMResponse(outcome.response))

generateWithAnthropic(context, outcome) ==
  IF outcome.kind = "throws" THEN Raised
  ELSE Returned(parseLLMResponse(outcome.response))

\* the try block of generateSpec, once the awaited call has settled
generateSpecTry(context, backend, outcome) ==
  CASE backend = "openai" -> generateWithOpenAI(context, outcome)
    [] backend = "anthropic" -> generateWithAnthropic(context, outcome)
    [] OTHER -> Returned(generateMockSpec(context))

\* generateSpec with the catch of lines 53-56 left out
generateSpecNoCatch(context, backend, outcome) ==
  generateSpecTry(context, backend, outcome)

generateSpec(context, backend, outcome) ==
  LET attempt == generateSpecTry(context, backend, outcome)
  IN IF attempt.threw THEN Returned(generateMockSpec(context)) ELSE attempt

(***************************************************************************)
(* SpecAnalyzer.generateSpecSuggestion                                     *)
(***************************************************************************)
CacheKey(analysis) == analysis.filePath.s \o ":" \o analysis.functionName

\* prepareLLMContext reads analysis.comments.map(...) (line 92): a TypeError
\* when the analysis carries no comments
PrepareThrows(analysis) == analysis.comments.t # "array"

prepareLLMContext(analysis) ==
  [functionName |-> analysis.functionName,
   inputTypes |-> analysis.ast.inputTypes,
   conditionalGuards |-> analysis.ast.conditionalGuards,
   earlyReturns |-> analysis.ast.earlyReturns,
   complexity |-> analysis.ast.complexity]

\* lines 55-65; `x || d` keeps every array and every non-zero number
Suggestion(analysis, spec) ==
  [functionName |-> analysis.functionName,
   filePath |-> analysis.filePath.s,
   lineNumber |-> analysis.lineNumber,
   preconditions |-> spec.preconditions,
   postconditions |-> spec.postconditions,
   invariants |-> spec.invariants,
   edgeCases |-> spec.edgeCases,
   confidence |-> IF spec.confidence # 0 THEN spec.confidence ELSE 0,
   reasoning |-> IF spec.reasoning # "" THEN spec.reasoning ELSE ""]

CacheHas(cache, analysis) == cache[CacheKey(analysis)] # <<>>

\* generateSpecSuggestion with the cache check of lines 45-47 left out
SuggestionEntryNoCache(cache, analysis) ==
  IF PrepareThrows(analysis) THEN "throws" ELSE "call"

\* lines 43-53, up to the await: "hit", "throws" or "call"
SuggestionEntry(cache, analysis) ==
  IF CacheHas(cache, analysis) THEN "hit"
  ELSE IF PrepareThrows(analysis) THEN "throws"
  ELSE "call"

\* lines 53-70, after the await: the record returned, or the exception;
\* `llm` keeps what callLLM gave
SuggestionReturn(analysis, backend, outcome) ==
  LET res == generateSpec(prepareLLMContext(analysis), backend, outcome)
  IN IF res.threw THEN [threw |-> TRUE, suggestion |-> <<>>, llm |-> res]
     ELSE [threw |-> FALSE,
           suggestion |-> <<Suggestion(analysis, res.spec[1])>>,
           llm |-> res]

NotCalled == [threw |-> FALSE, spec |-> <<>>]

(***************************************************************************)
(* ASTExtractor.analyzeFunction.  A FunctionChange carries, as `node`, what *)
(* parsing its file and looking its function up gives: <<>> when the file  *)
(* does not parse or the function is not found, else the function node.    *)
(***************************************************************************)
Parsers == {".js", ".jsx", ".ts", ".tsx", ".py", ".java", ".rs"}

\* path.extname: a TypeError when the path is no string
ExtnameThrows(filePath) == filePath.t # "string"

\* the file paths of the model and their extensions
Extname(path) ==
  CASE path = "a.js" -> ".js"
    [] path = "m.go" -> ".go"
    [] OTHER -> ""

\* calculateComplexity with the loops of line 1284 left out
calculateComplexityNoLoops(functionNode) ==
  1 + Len(functionNode.conditionalGuards) + Len(functionNode.earlyReturns)

calculateComplexity(functionNode) ==
  1 + Len(functionNode.conditionalGuards) + Len(functionNode.loops)
    + Len(functionNode.earlyReturns)

BasicAst ==
  [inputTypes |-> <<>>, outputType |-> "any", conditionalGuards |-> <<>>,
   loops |-> <<>>, earlyReturns |-> <<>>, complexity |-> 1]

WithAst(change, ast) ==
  [filePath |-> change.filePath, functionName |-> change.functionName,
   lineNumber |-> change.lineNumber, comments |-> change.comments,
   ast |-> ast]

createBasicAnalysis(change) == WithAst(change, BasicAst)

analyzeFunction(change) ==
  IF ExtnameThrows(change.filePath) THEN [threw |-> TRUE, analysis |-> <<>>]
  ELSE IF Extname(change.filePath.s) \notin Parsers
  THEN [threw |-> FALSE, analysis |-> <<createBasicAnalysis(change)>>]
  ELSE IF change.node = <<>>
  THEN [threw |-> FALSE, analysis |-> <<createBasicAnalysis(change)>>]
  ELSE LET functionNode == change.node[1]
       IN [threw |-> FALSE,
           analysis |-> <<WithAst(change,
              [inputTypes |-> functionNode.inputTypes,
               outputType |-> functionNode.outputType,
               conditionalGuards |-> functionNode.conditionalGuards,
               loops |-> functionNode.loops,
               earlyReturns |-> functionNode.earlyReturns,
               complexity |-> calculateComplexity(functionNode)])>>]

(***************************************************************************)
(* The inputs of the model.                                                *)
(***************************************************************************)
FunctionNames == {"f", "g"}

\* function f(a: number) { if (a < 0) return 0; ... }
FullNode ==
  [inputTypes |-> <<[name |-> "a", type |-> "number", required |-> TRUE]>>,
   outputType |-> "number",
   conditionalGuards |-> <<[condition |-> "a < 0"]>>,
   loops |-> <<>>,
   earlyReturns |-> <<[value |-> "0"]>>]

Change(filePath, functionName, comments, node) ==
  [filePath |-> filePath, functionName |-> functionName, lineNumber |-> 1,
   comments |-> comments, node |-> node]

\* per function: parsed, not parsed (degraded), no file path, no comments
ChangeSet ==
  UNION { { Change(JsString("a.js"), name, JsArray(<<>>), <<FullNode>>),
            Change(JsString("a.js"), name, JsArray(<<>>), <<>>),
            Change(JsUndefined, name, JsArray(<<>>), <<FullNode>>),
            Change(JsString("a.js"), name, JsUndefined, <<FullNode>>) }
          : name \in FunctionNames }

AnalysisSet ==
  { analyzeFunction(change).analysis[1] :
      change \in { c \in ChangeSet : ~analyzeFunction(c).threw } }

CacheKeys == { CacheKey(analysis) : analysis \in AnalysisSet }

\* the analyses requested concurrently: every analysis of f, and g parsed
RequestAnalyses ==
  { analysis \in AnalysisSet :
      \/ analysis.functionName = "f"
      \/ analysis.ast # BasicAst /\ analysis.comments.t = "array" }

ResponseObject(confidence, complexity, security) ==
  [preconditions |-> JsArray(<<"x is positive">>),
   postconditions |-> JsArray(<<"result is positive">>),
   invariants |-> JsArray(<<>>),
   edgeCases |-> JsArray(<<"x is zero">>),
   complexity |-> complexity, security |-> security,
   confidence |-> confidence, reasoning |-> JsString("analysis")]

GivenComplexity == JsComplexity("O(n^2)", "O(n)")
GivenSecurity == JsSecurity(<<"injection">>, <<"escape the input">>)

RespValid == Json(ResponseObject(JsNumber(90), GivenComplexity, GivenSecurity))
RespNoConfidence == Json(ResponseObject(JsUndefined, GivenComplexity, GivenSecurity))
RespHighConfidence == Json(ResponseObject(JsNumber(150), GivenComplexity, GivenSecurity))
RespNoComplexity == Json(ResponseObject(JsNumber(90), JsNoComplexity, GivenSecurity))

Outcomes ==
  {Throws, Silent} \cup
  { Answers(r) : r \in {RespValid, RespNoConfidence, RespHighConfidence,
                        RespNoComplexity, NotJson("text")} }

(***************************************************************************)
(* State                                                                   *)
(***************************************************************************)
IdleReq ==
  [pc |-> "idle", analysis |-> <<>>, backend |-> "none", outcome |-> <<>>,
   invoked |-> <<>>, during |-> {}, hit |-> FALSE,
   result |-> [threw |-> FALSE, suggestion |-> <<>>, llm |-> NotCalled]]

\* `origin` and `failed` are history: the FunctionChange each analysis came
\* from, and the FunctionChanges whose processing threw
IdlePipe ==
  [pc |-> "idle", functionChanges |-> <<>>, i |-> 1, astResults |-> <<>>,
   specSuggestions |-> <<>>, backend |-> "none", outcome |-> <<>>,
   raised |-> FALSE, origin |-> <<>>, failed |-> {}]

IdleMock == [context |-> EmptyContext, spec |-> <<>>]

IdleParse == [response |-> NoResponse, spec |-> <<>>]

IdleDrift ==
  [functionData |-> [functionName |-> "", functionBody |-> <<>>, filePath |-> ""],
   existingSpec |-> <<>>, result |-> <<>>]

IdleLean == [invariants |-> <<>>, edgeCases |-> <<>>, lemmas |-> <<>>,
             returned |-> FALSE]

IdleDiff == [file |-> "", diff |-> <<>>, functionChanges |-> <<>>,
             returned |-> FALSE]

IdleAst == [change |-> <<>>, result |-> <<>>]

\* `of` is history: how the type name was written
IdleMapped == [type |-> "", of |-> <<>>, leanType |-> <<>>]

\* `notificationQueue` holds the entries of the array from the position of
\* the loop's iterator on: nothing reads the entries before it again.
\* `queued` and `sent` are history: the queue at the call, and the
\* notifications posted to Slack
IdleFeedback ==
  [pc |-> "idle", slack |-> FALSE, notificationQueue |-> <<>>,
   notification |-> <<>>, queued |-> <<>>, sent |-> {}]

\* a spec and the context of its function, the file Lean4Generator wrote for
\* them, and analyzeFunctionDrift run on a body of the function
IdleEmitted ==
  [pc |-> "idle", spec |-> <<>>, context |-> <<>>, content |-> "",
   functionData |-> [functionName |-> "", functionBody |-> <<>>,
                     filePath |-> ""],
   existingSpec |-> <<>>, drift |-> <<>>, driftResults |-> <<>>]

InitShared ==
  /\ openai \in BOOLEAN
  /\ anthropic \in BOOLEAN
  /\ specCache = [key \in CacheKeys |-> <<>>]
  /\ backendCalls = [key \in CacheKeys |-> 0]

(***************************************************************************)
(* Spec: generateSpecSuggestion invocations on the one shared SpecAnalyzer *)
(* (index.js creates one and passes it to every event handler).            *)
(***************************************************************************)
Init ==
  /\ InitShared
  /\ req = [r \in 1..MaxRequests |-> IdleReq]
  /\ pipe = IdlePipe
  /\ mock = IdleMock
  /\ parse = IdleParse
  /\ drift = IdleDrift
  /\ lean = IdleLean
  /\ diff = IdleDiff
  /\ extracted = IdleAst
  /\ mapped = IdleMapped
  /\ feedback = IdleFeedback
  /\ emitted = IdleEmitted

Awaiting == { r \in 1..MaxRequests : req[r].pc = "await" }

\* generateSpecSuggestion up to its await
Start(r) ==
  /\ req[r].pc = "idle"
  /\ IF r = 1 THEN TRUE ELSE req[r - 1].pc # "idle"
  /\ \E analysis \in RequestAnalyses :
       LET entry == SuggestionEntry(specCache, analysis)
           backend == SelectBackend(openai, anthropic)
           begun == [IdleReq EXCEPT !.analysis = <<analysis>>,
                                    !.during = Awaiting]
       IN \/ /\ entry = "hit"
             /\ req' = [req EXCEPT ![r] = [begun EXCEPT
                    !.pc = "done", !.hit = TRUE,
                    !.result = [threw |-> FALSE,
                                suggestion |-> specCache[CacheKey(analysis)],
                                llm |-> NotCalled]]]
             /\ UNCHANGED backendCalls
          \/ /\ entry = "throws"
             /\ req' = [req EXCEPT ![r] = [begun EXCEPT
                    !.pc = "done",
                    !.result = [threw |-> TRUE, suggestion |-> <<>>,
                                llm |-> NotCalled]]]
             /\ UNCHANGED backendCalls
          \/ /\ entry = "call"
             /\ backend = "none"
             /\ req' = [req EXCEPT ![r] = [begun EXCEPT !.pc = "await"]]
             /\ UNCHANGED backendCalls
          \/ /\ entry = "call"
             /\ backend # "none"
             /\ \E outcome \in Outcomes :
                  req' = [req EXCEPT ![r] = [begun EXCEPT
                    !.pc = "await", !.backend = backend,
                    !.outcome = <<outcome>>, !.invoked = <<backend>>]]
             /\ backendCalls' = [backendCalls EXCEPT
                                   ![CacheKey(analysis)] = @ + 1]
  /\ UNCHANGED <<openai, anthropic, specCache, pipe, mock, parse,
                 drift, lean, diff, extracted, mapped,
                 feedback, emitted>>

Settled(backend, outcome) ==
  IF backend = "none" THEN TRUE ELSE outcome[1].kind # "silent"

OutcomeOf(backend, outcome) == IF backend = "none" THEN Throws ELSE outcome[1]

\* generateSpecSuggestion after its await
Finish(r) ==
  /\ req[r].pc = "await"
  /\ Settled(req[r].backend, req[r].outcome)
  /\ LET analysis == req[r].analysis[1]
         ret == SuggestionReturn(analysis, req[r].backend,
                                 OutcomeOf(req[r].backend, req[r].outcome))
     IN /\ req' = [req EXCEPT ![r].pc = "done", ![r].result = ret]
        /\ specCache' = IF ret.threw THEN specCache
                        ELSE [specCache EXCEPT
                                ![CacheKey(analysis)] = ret.suggestion]
  /\ UNCHANGED <<openai, anthropic, backendCalls, pipe, mock, parse,
                 drift, lean, diff, extracted, mapped,
                 feedback, emitted>>

Next == \E r \in 1..MaxRequests : Start(r) \/ Finish(r)

Spec == Init /\ [][Next]_vars

(***************************************************************************)
(* SpecBatch: one handlePullRequest run (index.js lines 80-86): extractAST *)
(* over the FunctionChanges, then analyzeChanges over its results.         *)
(***************************************************************************)
Batches == SeqsUpTo(ChangeSet, MaxBatch)

InitBatch ==
  /\ InitShared
  /\ req = [r \in 1..MaxRequests |-> IdleReq]
  /\ \E functionChanges \in Batches :
       pipe = [IdlePipe EXCEPT !.pc = "extract",
                               !.functionChanges = functionChanges]
  /\ mock = IdleMock
  /\ parse = IdleParse
  /\ drift = IdleDrift
  /\ lean = IdleLean
  /\ diff = IdleDiff
  /\ extracted = IdleAst
  /\ mapped = IdleMapped
  /\ feedback = IdleFeedback
  /\ emitted = IdleEmitted

\* extractAST with the try/catch of lines 873-879 left out
extractASTIterationNoCatch(p) ==
  LET res == analyzeFunction(p.functionChanges[p.i])
  IN IF res.threw
     THEN [p EXCEPT !.pc = "done", !.raised = TRUE]
     ELSE [p EXCEPT !.i = @ + 1,
                    !.astResults = Append(@, res.analysis[1]),
                    !.origin = Append(@, p.i)]

\* one iteration of extractAST's loop: try { push analyzeFunction } catch {}
extractASTIteration(p) ==
  LET res == analyzeFunction(p.functionChanges[p.i])
  IN IF res.threw
     THEN [p EXCEPT !.i = @ + 1, !.failed = @ \cup {p.i}]
     ELSE [p EXCEPT !.i = @ + 1,
                    !.astResults = Append(@, res.analysis[1]),
                    !.origin = Append(@, p.i)]

ExtractStep ==
  /\ pipe.pc = "extract"
  /\ pipe.i <= Len(pipe.functionChanges)
  /\ pipe' = extractASTIteration(pipe)
  /\ UNCHANGED <<openai, anthropic, specCache, backendCalls, req, mock, parse,
                 drift, lean, diff, extracted, mapped,
                 feedback, emitted>>

ExtractReturn ==
  /\ pipe.pc = "extract"
  /\ pipe.i > Len(pipe.functionChanges)
  /\ pipe' = [pipe EXCEPT !.pc = "analyze", !.i = 1]
  /\ UNCHANGED <<openai, anthropic, specCache, backendCalls, req, mock, parse,
                 drift, lean, diff, extracted, mapped,
                 feedback, emitted>>

\* analyzeChanges: the catch of one iteration
analyzeChangesCatch(p) ==
  [p EXCEPT !.pc = "analyze", !.i = @ + 1,
            !.failed = @ \cup {p.origin[p.i]}]

\* analyzeChanges: `if (suggestion) push` of one iteration
analyzeChangesPush(p, suggestion) ==
  [p EXCEPT !.pc = "analyze", !.i = @ + 1,
            !.specSuggestions = Append(@, suggestion)]

\* one iteration of analyzeChanges' loop up to the await of the backend call
AnalyzeStart ==
  /\ pipe.pc = "analyze"
  /\ pipe.i <= Len(pipe.astResults)
  /\ LET analysis == pipe.astResults[pipe.i]
         entry == SuggestionEntry(specCache, analysis)
         backend == SelectBackend(openai, anthropic)
     IN \/ /\ entry = "hit"
           /\ pipe' = analyzeChangesPush(pipe, specCache[CacheKey(analysis)][1])
           /\ UNCHANGED backendCalls
        \/ /\ entry = "throws"
           /\ pipe' = analyzeChangesCatch(pipe)
           /\ UNCHANGED backendCalls
        \/ /\ entry = "call"
           /\ backend = "none"
           /\ pipe' = [pipe EXCEPT !.pc = "await", !.backend = "none",
                                   !.outcome = <<>>]
           /\ UNCHANGED backendCalls
        \/ /\ entry = "call"
           /\ backend # "none"
           /\ \E outcome \in Outcomes :
                pipe' = [pipe EXCEPT !.pc = "await", !.backend = backend,
                                     !.outcome = <<outcome>>]
           /\ backendCalls' = [backendCalls EXCEPT
                                 ![CacheKey(analysis)] = @ + 1]
  /\ UNCHANGED <<openai, anthropic, specCache, req, mock, parse,
                 drift, lean, diff, extracted, mapped,
                 feedback, emitted>>

\* the rest of the iteration, once the backend call has settled
AnalyzeFinish ==
  /\ pipe.pc = "await"
  /\ Settled(pipe.backend, pipe.outcome)
  /\ LET analysis == pipe.astResults[pipe.i]
         ret == SuggestionReturn(analysis, pipe.backend,
                                 OutcomeOf(pipe.backend, pipe.outcome))
     IN /\ pipe' = IF ret.threw THEN analyzeChangesCatch(pipe)
                   ELSE analyzeChangesPush(pipe, ret.suggestion[1])
        /\ specCache' = IF ret.threw THEN specCache
                        ELSE [specCache EXCEPT
                                ![CacheKey(analysis)] = ret.suggestion]
  /\ UNCHANGED <<openai, anthropic, backendCalls, req, mock, parse,
                 drift, lean, diff, extracted, mapped,
                 feedback, emitted>>

AnalyzeReturn ==
  /\ pipe.pc = "analyze"
  /\ pipe.i > Len(pipe.astResults)
  /\ pipe' = [pipe EXCEPT !.pc = "done"]
  /\ UNCHANGED <<openai, anthropic, specCache, backendCalls, req, mock, parse,
                 drift, lean, diff, extracted, mapped,
                 feedback, emitted>>

NextBatch ==
  \/ ExtractStep
  \/ ExtractReturn
  \/ AnalyzeStart
  \/ AnalyzeFinish
  \/ AnalyzeReturn

SpecBatch == InitBatch /\ [][NextBatch]_vars

\* every step of the run is taken once it can be: the event loop runs every
\* ready continuation; a backend call that never settles readies none
FairBatch == SpecBatch /\ WF_vars(NextBatch)

(***************************************************************************)
(* SpecMock: generateMockSpec applied to every context of the bounds.      *)
(***************************************************************************)
ParamName(k) == "p" \o ToString(k)

ParamKinds == [type : {"number", "any"}, required : BOOLEAN]

InputTypesSet ==
  UNION { { [k \in 1..n |-> [name |-> ParamName(k), type |-> kinds[k].type,
                             required |-> kinds[k].required]]
            : kinds \in [1..n -> ParamKinds] }
          : n \in 0..MaxParams }

GuardsSet ==
  { [k \in 1..n |-> [condition |-> ParamName(k) \o " > 0"]] : n \in 0..MaxGuards }

EarlyReturnsSet ==
  SeqsUpTo({[value |-> "0"], [value |-> "null"], [value |-> ""]}, MaxReturns)

ComplexitySet == (1..MaxComplexity) \cup {20, 21}

Contexts ==
  [inputTypes : InputTypesSet, conditionalGuards : GuardsSet,
   earlyReturns : EarlyReturnsSet, complexity : ComplexitySet]

InitMock ==
  /\ openai = FALSE
  /\ anthropic = FALSE
  /\ specCache = [key \in CacheKeys |-> <<>>]
  /\ backendCalls = [key \in CacheKeys |-> 0]
  /\ req = [r \in 1..MaxRequests |-> IdleReq]
  /\ pipe = IdlePipe
  /\ \E context \in Contexts : mock = [context |-> context, spec |-> <<>>]
  /\ parse = IdleParse
  /\ drift = IdleDrift
  /\ lean = IdleLean
  /\ diff = IdleDiff
  /\ extracted = IdleAst
  /\ mapped = IdleMapped
  /\ feedback = IdleFeedback
  /\ emitted = IdleEmitted

ApplyMock ==
  /\ mock.spec = <<>>
  /\ mock' = [mock EXCEPT !.spec = <<generateMockSpec(mock.context)>>]
  /\ UNCHANGED <<openai, anthropic, specCache, backendCalls, req, pipe, parse,
                 drift, lean, diff, extracted, mapped,
                 feedback, emitted>>

SpecMock == InitMock /\ [][ApplyMock]_vars

(***************************************************************************)
(* SpecParse: parseLLMResponse applied to every response of the bounds.    *)
(***************************************************************************)
ListValues(tag) ==
  {JsUndefined, JsArray(<<>>), JsArray(<<tag>>), JsString(tag)}

ResponseObjects ==
  [preconditions : ListValues("x is positive"),
   postconditions : ListValues("result is positive"),
   invariants : ListValues("x is unchanged"),
   edgeCases : ListValues("x is zero"),
   complexity : {JsNoComplexity, GivenComplexity},
   security : {JsNoSecurity, GivenSecurity},
   confidence : {JsUndefined, JsNumber(0), JsNumber(90), JsNumber(150),
                 JsNumber(-5), JsString("high")},
   reasoning : {JsUndefined, JsString("analysis")}]

Responses ==
  { Json(obj) : obj \in ResponseObjects }
    \cup { NotJson(kind) : kind \in {"null", "text", "badjson"} }

InitParse ==
  /\ openai = FALSE
  /\ anthropic = FALSE
  /\ specCache = [key \in CacheKeys |-> <<>>]
  /\ backendCalls = [key \in CacheKeys |-> 0]
  /\ req = [r \in 1..MaxRequests |-> IdleReq]
  /\ pipe = IdlePipe
  /\ mock = IdleMock
  /\ \E response \in Responses : parse = [response |-> response, spec |-> <<>>]
  /\ drift = IdleDrift
  /\ lean = IdleLean
  /\ diff = IdleDiff
  /\ extracted = IdleAst
  /\ mapped = IdleMapped
  /\ feedback = IdleFeedback
  /\ emitted = IdleEmitted

ApplyParse ==
  /\ parse.spec = <<>>
  /\ parse' = [parse EXCEPT !.spec = <<parseLLMResponse(parse.response)>>]
  /\ UNCHANGED <<openai, anthropic, specCache, backendCalls, req, pipe, mock,
                 drift, lean, diff, extracted, mapped,
                 feedback, emitted>>

SpecParse == InitParse /\ [][ApplyParse]_vars

(***************************************************************************)
(* Claims about generateSpec and generateSpecSuggestion (Spec)             *)
(***************************************************************************)
Requests == 1..MaxRequests

Done(r) == req[r].pc = "done"

KeyOf(r) == CacheKey(req[r].analysis[1])

\* the backend call of request r was made and did not give a usable response
CallFailed(r) ==
  /\ req[r].outcome # <<>>
  /\ LET outcome == req[r].outcome[1]
     IN IF outcome.kind = "answers"
        THEN IF outcome.response.kind = "json"
             THEN MissingFields(outcome.response.obj) # {}
             ELSE TRUE
        ELSE outcome.kind = "throws"

\* C1: when the first configured backend fails and a second one is
\* configured, generateSpec invokes the second one before it falls back.
C1_NextBackendInvoked ==
  \A r \in Requests :
    (Done(r) /\ openai /\ anthropic /\ CallFailed(r))
      => \E j \in 1..Len(req[r].invoked) : req[r].invoked[j] = "anthropic"

\* C2: two overlapping generateSpecSuggestion requests for the same
\* functionKey make at most one backend call and return the same record.
C2_OverlapSharesOneCall ==
  \A r1 \in Requests : \A r2 \in Requests :
    (/\ Done(r1) /\ Done(r2)
     /\ r1 \in req[r2].during
     /\ ~req[r1].result.threw /\ ~req[r2].result.threw
     /\ KeyOf(r1) = KeyOf(r2)
     /\ req[r1].analysis = req[r2].analysis)
      => /\ Len(req[r1].invoked) + Len(req[r2].invoked) <= 1
         /\ req[r1].result.suggestion = req[r2].result.suggestion

\* C3: every record returned by generateSpecSuggestion has a confidence
\* in [0,100].
C3_ConfidenceInRange ==
  \A r \in Requests :
    (Done(r) /\ ~req[r].result.threw)
      => /\ req[r].result.suggestion[1].confidence >= 0
         /\ req[r].result.suggestion[1].confidence <= 100

\* C4: a generateSpecSuggestion call made for a functionKey after a call for
\* that key has completed returns the cached record at once and makes no
\* backend call.
C4_SecondCallServedFromCache ==
  [][\A r \in Requests : \A r0 \in Requests :
       (/\ req[r].pc = "idle" /\ req'[r].pc # "idle"
        /\ Done(r0) /\ ~req[r0].result.threw
        /\ KeyOf(r0) = CacheKey(req'[r].analysis[1]))
         => /\ req'[r].pc = "done"
            /\ ~req'[r].result.threw
            /\ req'[r].result.suggestion = specCache[KeyOf(r0)]
            /\ \E r1 \in Requests :
                 /\ Done(r1) /\ KeyOf(r1) = KeyOf(r0)
                 /\ req[r1].result.suggestion = req'[r].result.suggestion
            /\ req'[r].invoked = <<>>
            /\ backendCalls' = backendCalls
            /\ specCache' = specCache]_vars

C4_Witness ==
  /\ openai
  /\ Done(1) /\ Done(2)
  /\ req[1].invoked = <<"openai">> /\ req[2].during = {}
  /\ KeyOf(1) = KeyOf(2)
  /\ req[2].hit /\ req[2].invoked = <<>>
  /\ req[2].result.suggestion = req[1].result.suggestion
  /\ backendCalls[KeyOf(1)] = 1

RECURSIVE NamesOf(_)
NamesOf(records) ==
  IF records = <<>> THEN <<>>
  ELSE <<Head(records).functionName>> \o NamesOf(Tail(records))

RECURSIVE Surviving(_, _, _)
Surviving(changes, failed, k) ==
  IF k > Len(changes) THEN <<>>
  ELSE (IF k \in failed THEN <<>> ELSE <<changes[k]>>)
         \o Surviving(changes, failed, k + 1)

WellFormed(change) ==
  change.filePath.t = "string" /\ change.comments.t = "array"

\* C7: every backend call is bounded by a timeout, so the batch always
\* completes, whatever the backend does.
C7_BatchAlwaysCompletes == <>(pipe.pc = "done")

\* C8: every FunctionChange yields exactly one record in the output.
C8_OneRecordPerChange ==
  pipe.pc = "done" => Len(pipe.specSuggestions) = Len(pipe.functionChanges)

\* C9: a failing FunctionChange does not make extractAST or analyzeChanges
\* raise; every other FunctionChange of the batch is processed and the
\* results come in input order.
C9_FailureDoesNotAbortBatch ==
  /\ ~pipe.raised
  /\ pipe.pc = "done" =>
       /\ \A k \in 1..Len(pipe.functionChanges) :
            WellFormed(pipe.functionChanges[k]) => k \notin pipe.failed
       /\ NamesOf(pipe.specSuggestions) =
            NamesOf(Surviving(pipe.functionChanges, pipe.failed, 1))

C9_Witness ==
  /\ pipe.pc = "done"
  /\ Len(pipe.functionChanges) = 3
  /\ pipe.failed = {2}
  /\ NamesOf(pipe.specSuggestions) = <<"f", "g">>

(***************************************************************************)
(* Claims about parseLLMResponse (SpecParse) and generateMockSpec          *)
(* (SpecMock)                                                              *)
(***************************************************************************)
ListFields == {"preconditions", "postconditions", "invariants", "edgeCases"}

\* a required field of the backend interface is missing from the response
Incomplete(obj) ==
  \/ \E field \in ListFields : obj[field].t = "undefined"
  \/ obj.complexity.t = "undefined"
  \/ obj.security.t = "undefined"
  \/ obj.confidence.t # "number"

\* no value of the response is in the spec
TakesNothing(spec, obj) ==
  /\ \A field \in ListFields : IsArray(obj[field]) => spec[field] # obj[field].l
  /\ obj.complexity.t = "object" =>
       spec.complexity # [time |-> obj.complexity.time,
                          space |-> obj.complexity.space]
  /\ obj.security.t = "object" =>
       spec.security # [vulnerabilities |-> obj.security.vulnerabilities,
                        mitigations |-> obj.security.mitigations]
  /\ obj.reasoning.t = "string" => spec.reasoning # obj.reasoning.s

\* C5: a response from which a required field is missing is rejected: no
\* value of it appears in the spec parseLLMResponse returns.
C5_IncompleteResponseRejected ==
  (/\ parse.spec # <<>>
   /\ parse.response.kind = "json"
   /\ Incomplete(parse.response.obj))
    => TakesNothing(parse.spec[1], parse.response.obj)

AllTypedRequired(inputTypes) ==
  \A k \in 1..Len(inputTypes) :
    inputTypes[k].type = "number" /\ inputTypes[k].required

\* C10: n >= 1 typed, required parameters, no guards, no early returns and
\* complexity c give exactly n preconditions and confidence min(85, 100 - 5c).
C10_OnePreconditionPerParameter ==
  (/\ mock.spec # <<>>
   /\ Len(mock.context.inputTypes) >= 1
   /\ AllTypedRequired(mock.context.inputTypes)
   /\ mock.context.conditionalGuards = <<>>
   /\ mock.context.earlyReturns = <<>>)
    => /\ Len(mock.spec[1].preconditions) = Len(mock.context.inputTypes)
       /\ mock.spec[1].confidence = Min(85, 100 - 5 * mock.context.complexity)

(***************************************************************************)
(* SpecCoverageTracker: drift detection (src/src/spec-coverage.js).        *)
(* A function body is a sequence of tokens; each token carries what the    *)
(* regular expressions and the includes() tests of the code see in it.     *)
(***************************************************************************)
BodyTokens == {"if (", "while (", "return", "throw", "diff", "\n"}

Bodies == SeqsUpTo(BodyTokens, MaxTokens)

RECURSIVE Count(_, _)
Count(body, tokens) ==
  IF body = <<>> THEN 0
  ELSE (IF Head(body) \in tokens THEN 1 ELSE 0) + Count(Tail(body), tokens)

\* lines 619-635; this one takes the text of the body, not an AST node
coverageComplexity(functionBody) ==
  LET ifMatches == Count(functionBody, {"if ("})
      loopMatches == Count(functionBody, {"while ("})
      returnMatches == Count(functionBody, {"return"})
  IN 1 + ifMatches + loopMatches
       + (IF returnMatches > 0 THEN returnMatches - 1 ELSE 0)

\* lines 603-612; includes('if') also finds the "if" inside "diff"
analyzeCurrentImplementation(functionBody) ==
  [complexity |-> coverageComplexity(functionBody),
   hasValidation |-> Count(functionBody, {"if (", "diff", "throw"}) > 0,
   hasReturn |-> Count(functionBody, {"return"}) > 0,
   lines |-> Count(functionBody, {"\n"}) + 1]

JsBoolean(x) == [t |-> "boolean", b |-> x]
JsNoBoolean == [t |-> "undefined", b |-> FALSE]

\* `current.complexity > spec.complexity * 1.5`: with an integer on each side
\* this is 2 * current > 3 * previous; with spec.complexity undefined the
\* product is NaN and the comparison is false
ComplexityIncreased(current, spec) ==
  IF spec.complexity.t = "number"
  THEN 2 * current.complexity > 3 * spec.complexity.n
  ELSE FALSE

\* `current.hasValidation !== spec.hasValidation` (strict: undefined differs
\* from both booleans)
ValidationChanged(current, spec) ==
  IF spec.hasValidation.t = "boolean"
  THEN current.hasValidation # spec.hasValidation.b
  ELSE TRUE

\* compareWithSpec with `>=` in place of `>` at line 651
compareWithSpecAtLeast(current, spec) ==
  LET increased == IF spec.complexity.t = "number"
                   THEN 2 * current.complexity >= 3 * spec.complexity.n
                   ELSE FALSE
      changed == ValidationChanged(current, spec)
      details ==
        (IF increased THEN <<"Function complexity increased significantly">>
         ELSE <<>>)
        \o (IF changed THEN <<"Input validation patterns changed">> ELSE <<>>)
  IN [hasDrift |-> increased \/ changed, details |-> details,
      confidence |-> Min(100, Len(details) * 25)]

\* compareWithSpec with the push of line 659 left out
compareWithSpecNoReason(current, spec) ==
  LET increased == ComplexityIncreased(current, spec)
      changed == ValidationChanged(current, spec)
      details ==
        IF increased THEN <<"Function complexity increased significantly">>
        ELSE <<>>
  IN [hasDrift |-> increased \/ changed, details |-> details,
      confidence |-> Min(100, Len(details) * 25)]

compareWithSpec(current, spec) ==
  LET increased == ComplexityIncreased(current, spec)
      changed == ValidationChanged(current, spec)
      details ==
        (IF increased THEN <<"Function complexity increased significantly">>
         ELSE <<>>)
        \o (IF changed THEN <<"Input validation patterns changed">> ELSE <<>>)
  IN [hasDrift |-> increased \/ changed, details |-> details,
      confidence |-> Min(100, Len(details) * 25)]

\* lines 488-518, with what findExistingSpec returned: <<>> (null) or <<spec>>
analyzeFunctionDrift(functionData, existingSpec) ==
  IF existingSpec = <<>>
  THEN [functionName |-> functionData.functionName,
        filePath |-> functionData.filePath,
        hasDrift |-> FALSE,
        reason |-> "No existing spec found"]
  ELSE LET currentAnalysis ==
             analyzeCurrentImplementation(functionData.functionBody)
           comparison == compareWithSpec(currentAnalysis, existingSpec[1])
       IN [functionName |-> functionData.functionName,
           filePath |-> functionData.filePath,
           hasDrift |-> comparison.hasDrift,
           previousSpec |-> existingSpec[1],
           currentImplementation |-> currentAnalysis,
           driftDetails |-> comparison.details,
           confidence |-> comparison.confidence]

\* the prior records: those of a caller that recorded a fingerprint, and
\* those parseSpecFile gives (lines 549-555: neither complexity nor
\* hasValidation)
ExistingSpecs ==
  [complexity : {JsUndefined} \cup { JsNumber(n) : n \in 1..MaxPrevious },
   hasValidation : {JsNoBoolean, JsBoolean(TRUE), JsBoolean(FALSE)}]

InitDrift ==
  /\ openai = FALSE
  /\ anthropic = FALSE
  /\ specCache = [key \in CacheKeys |-> <<>>]
  /\ backendCalls = [key \in CacheKeys |-> 0]
  /\ req = [r \in 1..MaxRequests |-> IdleReq]
  /\ pipe = IdlePipe
  /\ mock = IdleMock
  /\ parse = IdleParse
  /\ \E functionBody \in Bodies :
       \E existingSpec \in {<<>>} \cup { <<spec>> : spec \in ExistingSpecs } :
         drift = [functionData |-> [functionName |-> "f",
                                    functionBody |-> functionBody,
                                    filePath |-> "a.js"],
                  existingSpec |-> existingSpec, result |-> <<>>]
  /\ lean = IdleLean
  /\ diff = IdleDiff
  /\ extracted = IdleAst
  /\ mapped = IdleMapped
  /\ feedback = IdleFeedback
  /\ emitted = IdleEmitted

ApplyDrift ==
  /\ drift.result = <<>>
  /\ drift' = [drift EXCEPT
       !.result = <<analyzeFunctionDrift(drift.functionData,
                                         drift.existingSpec)>>]
  /\ UNCHANGED <<openai, anthropic, specCache, backendCalls, req, pipe, mock,
                 parse, lean, diff, extracted, mapped,
                 feedback, emitted>>

SpecDrift == InitDrift /\ [][ApplyDrift]_vars

(***************************************************************************)
(* Claims about drift detection (SpecDrift)                                *)
(***************************************************************************)
\* a drift result computed against a baseline
Compared == drift.result # <<>> /\ drift.existingSpec # <<>>

\* the baseline carries a numeric complexity and a boolean validation-presence
Fingerprinted(spec) ==
  spec.complexity.t = "number" /\ spec.hasValidation.t = "boolean"

\* C11: with a numeric previous complexity and a boolean previous
\* validation-presence, hasDrift is true exactly when the current complexity
\* exceeds 1.5 times the previous one or the validation-presence differs;
\* previous 2, current 4 and equal validation-presence give the single
\* complexity reason and confidence 25.
C11_DriftExactlyOnThreshold ==
  (Compared /\ Fingerprinted(drift.existingSpec[1])) =>
    LET result == drift.result[1]
        current == result.currentImplementation
        previous == drift.existingSpec[1]
        sameValidation == current.hasValidation = previous.hasValidation.b
    IN /\ result.hasDrift <=>
            \/ 10 * current.complexity > 15 * previous.complexity.n
            \/ ~sameValidation
       /\ (current.complexity = previous.complexity.n /\ sameValidation)
            => ~result.hasDrift
       /\ (previous.complexity.n = 2 /\ current.complexity = 4
           /\ sameValidation)
            => /\ result.hasDrift
               /\ Len(result.driftDetails) = 1
               /\ result.driftDetails[1] =
                    "Function complexity increased significantly"
               /\ result.confidence = 25

C11_Witness ==
  /\ Compared
  /\ drift.existingSpec[1] = [complexity |-> JsNumber(2),
                              hasValidation |-> JsBoolean(TRUE)]
  /\ drift.result[1].currentImplementation.complexity = 4
  /\ drift.result[1].currentImplementation.hasValidation
  /\ drift.result[1].hasDrift
  /\ drift.result[1].confidence = 25

\* C12: in every drift result computed against a baseline, hasDrift is true
\* if and only if there is at least one reason, and confidence is
\* min(100, 25 * number of reasons).
C12_DriftHasReasons ==
  Compared =>
    LET result == drift.result[1]
    IN /\ result.hasDrift <=> Len(result.driftDetails) > 0
       /\ result.confidence = Min(100, 25 * Len(result.driftDetails))

C12_Witness ==
  /\ Compared
  /\ drift.existingSpec[1].hasValidation = JsNoBoolean
  /\ drift.result[1].hasDrift
  /\ Len(drift.result[1].driftDetails) = 2
  /\ drift.result[1].confidence = 50

(***************************************************************************)
(* Lean4Generator (src/unnamed/part_000, first class of the file).         *)
(* Texts are strings; the regular-expression replacements are computed     *)
(* character by character.  The symbols the code writes outside ASCII are  *)
(* spelled in ASCII here: "!=" for the not-equal sign.                     *)
(***************************************************************************)
LowerCase ==
  {"a", "b", "c", "d", "e", "f", "g", "h", "i", "j", "k", "l", "m", "n", "o",
   "p", "q", "r", "s", "t", "u", "v", "w", "x", "y", "z"}

Digits == {"0", "1", "2", "3", "4", "5", "6", "7", "8", "9"}

\* the upper-case letters of the texts of the model, with their lower case
ToLower == [c \in {"H", "R"} |-> IF c = "H" THEN "h" ELSE "r"]

\* \w and [a-zA-Z0-9_]
WordChars == LowerCase \cup Digits \cup DOMAIN ToLower \cup {"_"}

Rest(text) == SubSeq(text, 2, Len(text))

\* String.prototype.startsWith
startsWith(text, prefix) ==
  IF Len(text) < Len(prefix) THEN FALSE
  ELSE SubSeq(text, 1, Len(prefix)) = prefix

RECURSIVE MapChars(_, _)
MapChars(text, kind) ==
  IF text = "" THEN ""
  ELSE LET c == SubSeq(text, 1, 1)
           d == CASE kind = "word" -> IF c \in WordChars THEN c ELSE "_"
                  [] OTHER -> IF c \in DOMAIN ToLower THEN ToLower[c] ELSE c
       IN d \o MapChars(Rest(text), kind)

\* .replace(/_+/g, '_')
RECURSIVE Collapse(_)
Collapse(text) ==
  IF Len(text) < 2 THEN text
  ELSE IF SubSeq(text, 1, 2) = "__" THEN Collapse(Rest(text))
  ELSE SubSeq(text, 1, 1) \o Collapse(Rest(text))

\* .replace(/^_|_$/g, '')
Trim(text) ==
  LET front == IF text # "" /\ SubSeq(text, 1, 1) = "_" THEN Rest(text)
               ELSE text
  IN IF front # "" /\ SubSeq(front, Len(front), Len(front)) = "_"
     THEN SubSeq(front, 1, Len(front) - 1)
     ELSE front

sanitizeName(name) == MapChars(Trim(Collapse(MapChars(name, "word"))), "lower")

\* .replace(/pattern/g, replacement) for a literal pattern
RECURSIVE ReplaceAll(_, _, _)
ReplaceAll(text, pattern, replacement) ==
  IF Len(text) < Len(pattern) THEN text
  ELSE IF SubSeq(text, 1, Len(pattern)) = pattern
  THEN replacement
         \o ReplaceAll(SubSeq(text, Len(pattern) + 1, Len(text)), pattern,
                       replacement)
  ELSE SubSeq(text, 1, 1) \o ReplaceAll(Rest(text), pattern, replacement)

\* .replace(/is of type (\w+)/g, ': $1')
RECURSIVE ReplaceTypeCheck(_)
ReplaceTypeCheck(text) ==
  IF Len(text) < 12 THEN text
  ELSE IF SubSeq(text, 1, 11) = "is of type " /\ SubSeq(text, 12, 12) \in WordChars
  THEN ": " \o ReplaceTypeCheck(SubSeq(text, 12, Len(text)))
  ELSE SubSeq(text, 1, 1) \o ReplaceTypeCheck(Rest(text))

\* .replace(/(\w+)\(/g, '$1 ')
RECURSIVE ReplaceCall(_)
ReplaceCall(text) ==
  IF Len(text) < 2 THEN text
  ELSE IF SubSeq(text, 1, 1) \in WordChars /\ SubSeq(text, 2, 2) = "("
  THEN SubSeq(text, 1, 1) \o " " \o ReplaceCall(SubSeq(text, 3, Len(text)))
  ELSE SubSeq(text, 1, 1) \o ReplaceCall(Rest(text))

\* lines 389-415 for one predicate.  The comparison replacements of lines
\* 399-400 write back what they matched; those of lines 401-402 and 405-406
\* match ">= 0", "<= 0" and ".length", which no text of the model contains.
convertToLeanPredicate(predicate) ==
  LET nullChecks == ReplaceAll(ReplaceAll(predicate, "is not null/undefined",
                                          "!= none"),
                               "is null/undefined", "= none")
      typeChecks == ReplaceTypeCheck(nullChecks)
      booleans == ReplaceAll(ReplaceAll(typeChecks, "is true", "= true"),
                             "is false", "= false")
  IN ReplaceCall(booleans)

RECURSIVE convertToLeanPredicates(_)
convertToLeanPredicates(predicates) ==
  IF predicates = <<>> THEN <<>>
  ELSE <<convertToLeanPredicate(Head(predicates))>>
         \o convertToLeanPredicates(Tail(predicates))

\* one loop of generateHelperLemmas (lines 237-243, 246-252), from index i
RECURSIVE LemmasFrom(_, _, _)
LemmasFrom(prefix, predicates, i) ==
  IF i > Len(predicates) THEN <<>>
  ELSE LET lemmaName == prefix \o ToString(i) \o "_"
                          \o sanitizeName(predicates[i])
           leanPredicate == convertToLeanPredicates(<<predicates[i]>>)[1]
       IN <<"lemma " \o lemmaName \o " : " \o leanPredicate \o " := sorry">>
            \o LemmasFrom(prefix, predicates, i + 1)

\* generateHelperLemmas with the edge-case loop of lines 246-252 left out
generateHelperLemmasInvariantsOnly(invariants, edgeCases) ==
  LemmasFrom("invariant_", invariants, 1)

generateHelperLemmas(invariants, edgeCases) ==
  LemmasFrom("invariant_", invariants, 1)
    \o LemmasFrom("edge_case_", edgeCases, 1)

PredicateTexts ==
  {"Result is true", "x is not null/undefined", "check(x) > 0"}

InitLean ==
  /\ openai = FALSE
  /\ anthropic = FALSE
  /\ specCache = [key \in CacheKeys |-> <<>>]
  /\ backendCalls = [key \in CacheKeys |-> 0]
  /\ req = [r \in 1..MaxRequests |-> IdleReq]
  /\ pipe = IdlePipe
  /\ mock = IdleMock
  /\ parse = IdleParse
  /\ drift = IdleDrift
  /\ \E invariants \in SeqsUpTo(PredicateTexts, MaxInvariants) :
       \E edgeCases \in SeqsUpTo(PredicateTexts, MaxEdgeCases) :
         lean = [IdleLean EXCEPT !.invariants = invariants,
                                 !.edgeCases = edgeCases]
  /\ diff = IdleDiff
  /\ extracted = IdleAst
  /\ mapped = IdleMapped
  /\ feedback = IdleFeedback
  /\ emitted = IdleEmitted

ApplyLean ==
  /\ ~lean.returned
  /\ lean' = [lean EXCEPT
       !.lemmas = generateHelperLemmas(lean.invariants, lean.edgeCases),
       !.returned = TRUE]
  /\ UNCHANGED <<openai, anthropic, specCache, backendCalls, req, pipe, mock,
                 parse, drift, diff, extracted, mapped,
                 feedback, emitted>>

SpecLean == InitLean /\ [][ApplyLean]_vars

(***************************************************************************)
(* Claims about the Lean4 generator (SpecLean)                             *)
(***************************************************************************)
EndsWith(text, suffix) ==
  /\ Len(text) >= Len(suffix)
  /\ SubSeq(text, Len(text) - Len(suffix) + 1, Len(text)) = suffix

\* C13: N invariants and M edge cases give exactly N+M helper lemmas: the
\* k-th is the lemma of the k-th invariant for k <= N and that of the
\* (k-N)-th edge case after, and each ends in `sorry`.
C13_OneLemmaPerInvariantAndEdgeCase ==
  lean.returned =>
    LET N == Len(lean.invariants)
        M == Len(lean.edgeCases)
    IN /\ Len(lean.lemmas) = N + M
       /\ \A k \in 1..N :
            /\ startsWith(lean.lemmas[k],
                 "lemma invariant_" \o ToString(k) \o "_"
                   \o sanitizeName(lean.invariants[k]) \o " : ")
            /\ EndsWith(lean.lemmas[k], " := sorry")
       /\ \A k \in 1..M :
            /\ startsWith(lean.lemmas[N + k],
                 "lemma edge_case_" \o ToString(k) \o "_"
                   \o sanitizeName(lean.edgeCases[k]) \o " : ")
            /\ EndsWith(lean.lemmas[N + k], " := sorry")

C13_Witness ==
  /\ lean.returned
  /\ Len(lean.invariants) = 2
  /\ Len(lean.edgeCases) = 3
  /\ Len(lean.lemmas) = 5
  /\ lean.lemmas[1] =
       "lemma invariant_1_x_is_not_null_undefined : x != none := sorry"
  /\ lean.lemmas[5] = "lemma edge_case_3_check_x_0 : check x) > 0 := sorry"

(***************************************************************************)
(* DiffParser (src/unnamed/part_000, second class of the file).  A diff is *)
(* the sequence of its lines (diff.split('\n')); a line is its text.       *)
(***************************************************************************)
HeaderA == "diff --git a/a.js b/a.js"
HeaderXa == "diff --git a/xa.js b/xa.js"
AddOneLine == "+function add(a,b){return a+b;}"
AddOpen == "+function sub(a,b) {"
RemovedStatement == "-  return a-b;"
AddClose == "+}"
RemovedOneLine == "-function old(){}"
BlankLine == ""

DiffLines ==
  {HeaderA, HeaderXa, AddOneLine, AddOpen, RemovedStatement, AddClose,
   RemovedOneLine, BlankLine}

Filenames == {"a.js", "xa.js"}

\* String.prototype.includes
Includes(text, part) ==
  \E i \in 1..(Len(text) - Len(part) + 1) :
    SubSeq(text, i, i + Len(part) - 1) = part

\* line.trim() === ''
IsBlank(text) ==
  \A i \in 1..Len(text) : SubSeq(text, i, i) \in {" ", "\t"}

RECURSIVE CountChar(_, _)
CountChar(text, c) ==
  IF text = "" THEN 0
  ELSE (IF SubSeq(text, 1, 1) = c THEN 1 ELSE 0) + CountChar(Rest(text), c)

countBraces(line) == CountChar(line, "{") - CountChar(line, "}")

\* lines 650-667: the lines after the last `diff --git` line that includes
\* the filename, up to the next `diff --git` line
RECURSIVE ExtractFileDiffFrom(_, _, _, _, _)
ExtractFileDiffFrom(lines, filename, k, inTargetFile, fileDiff) ==
  IF k > Len(lines) THEN fileDiff
  ELSE LET line == lines[k]
       IN IF startsWith(line, "diff --git")
          THEN LET target == Includes(line, filename)
               IN ExtractFileDiffFrom(lines, filename, k + 1, target,
                                      IF target THEN <<>> ELSE fileDiff)
          ELSE IF inTargetFile
          THEN ExtractFileDiffFrom(lines, filename, k + 1, inTargetFile,
                                   Append(fileDiff, line))
          ELSE ExtractFileDiffFrom(lines, filename, k + 1, inTargetFile,
                                   fileDiff)

extractFileDiff(lines, filename) ==
  ExtractFileDiffFrom(lines, filename, 1, FALSE, <<>>)

\* `!fileDiff` after fileDiff.join('\n'): the empty text
IsEmptyText(fileDiff) == fileDiff = <<>> \/ fileDiff = <<"">>

\* the first of the patterns of lines 679-694 that matches the line:
\* <<>> (no match) or <<[sign, name]>> (match[1], match[2])
FunctionMatch(line) ==
  CASE line = AddOneLine -> <<[sign |-> "+", name |-> "add"]>>
    [] line = AddOpen -> <<[sign |-> "+", name |-> "sub"]>>
    [] line = RemovedOneLine -> <<[sign |-> "-", name |-> "old"]>>
    [] OTHER -> <<>>

\* extractFunctions without the push of lines 738-740: the capture still open
\* at the end of the hunk is dropped
RECURSIVE ExtractFunctionsFromNoFinalPush(_, _, _, _, _, _)
ExtractFunctionsFromNoFinalPush(lines, k, functions, currentFunction, braceCount, inFunction) ==
  IF k > Len(lines)
  THEN functions
  ELSE LET line == lines[k]
           match == FunctionMatch(line)
           started == match # <<>>
           functions1 == IF started THEN functions \o currentFunction
                         ELSE functions
           current1 == IF started
                       THEN <<[name |-> match[1].name, body |-> <<line>>,
                               lineNumber |-> k,
                               changeType |-> match[1].sign]>>
                       ELSE currentFunction
           inFunction1 == started \/ inFunction
           braceCount1 == IF started THEN countBraces(line) ELSE braceCount
           building == inFunction1 /\ current1 # <<>>
           braceCount2 == IF building THEN braceCount1 + countBraces(line)
                          ELSE braceCount1
           current2 == IF building
                       THEN <<[current1[1] EXCEPT !.body = Append(@, line)]>>
                       ELSE current1
           ends == building /\ braceCount2 = 0 /\ ~IsBlank(line)
       IN IF ends
          THEN ExtractFunctionsFromNoFinalPush(lines, k + 1, functions1 \o current2,
                                               <<>>, braceCount2, FALSE)
          ELSE ExtractFunctionsFromNoFinalPush(lines, k + 1, functions1, current2,
                                               braceCount2, inFunction1)

\* lines 700-736: the loop of extractFunctions from line k on; `body` is the
\* sequence of the lines joined by '\n'
RECURSIVE ExtractFunctionsFrom(_, _, _, _, _, _)
ExtractFunctionsFrom(lines, k, functions, currentFunction, braceCount, inFunction) ==
  IF k > Len(lines)
  THEN functions \o currentFunction
  ELSE LET line == lines[k]
           match == FunctionMatch(line)
           started == match # <<>>
           functions1 == IF started THEN functions \o currentFunction
                         ELSE functions
           current1 == IF started
                       THEN <<[name |-> match[1].name, body |-> <<line>>,
                               lineNumber |-> k,
                               changeType |-> match[1].sign]>>
                       ELSE currentFunction
           inFunction1 == started \/ inFunction
           braceCount1 == IF started THEN countBraces(line) ELSE braceCount
           building == inFunction1 /\ current1 # <<>>
           braceCount2 == IF building THEN braceCount1 + countBraces(line)
                          ELSE braceCount1
           current2 == IF building
                       THEN <<[current1[1] EXCEPT !.body = Append(@, line)]>>
                       ELSE current1
           ends == building /\ braceCount2 = 0 /\ ~IsBlank(line)
       IN IF ends
          THEN ExtractFunctionsFrom(lines, k + 1, functions1 \o current2,
                                    <<>>, braceCount2, FALSE)
          ELSE ExtractFunctionsFrom(lines, k + 1, functions1, current2,
                                    braceCount2, inFunction1)

extractFunctions(fileDiff) ==
  ExtractFunctionsFrom(fileDiff, 1, <<>>, <<>>, 0, FALSE)

\* determineChangeType answering with what the start line matched (line 715)
determineChangeTypeOfMatch(func) == func.changeType

determineChangeType(func) ==
  LET hasAdded == \E k \in 1..Len(func.body) : startsWith(func.body[k], "+")
      hasRemoved == \E k \in 1..Len(func.body) : startsWith(func.body[k], "-")
  IN IF hasAdded /\ hasRemoved THEN "modified"
     ELSE IF hasAdded THEN "added"
     ELSE IF hasRemoved THEN "removed"
     ELSE "modified"

\* line.replace(/^(\+|\-)?\s*/, '').trim()
RECURSIVE TrimStart(_)
TrimStart(text) ==
  IF text # "" /\ SubSeq(text, 1, 1) \in {" ", "\t"} THEN TrimStart(Rest(text))
  ELSE text

RECURSIVE TrimEnd(_)
TrimEnd(text) ==
  IF text # "" /\ SubSeq(text, Len(text), Len(text)) \in {" ", "\t"}
  THEN TrimEnd(SubSeq(text, 1, Len(text) - 1))
  ELSE text

CommentText(line) ==
  TrimEnd(TrimStart(IF startsWith(line, "+") \/ startsWith(line, "-")
                    THEN Rest(line) ELSE line))

getCommentType(comment) ==
  IF Includes(comment, "TODO") \/ Includes(comment, "FIXME") THEN "todo"
  ELSE IF Includes(comment, "@param") \/ Includes(comment, "@return")
  THEN "documentation"
  ELSE IF Includes(comment, "@spec") \/ Includes(comment, "@pre")
          \/ Includes(comment, "@post")
  THEN "specification"
  ELSE "general"

\* lines 783-809: the comment lines within 5 lines of the function
RECURSIVE ExtractCommentsFrom(_, _, _)
ExtractCommentsFrom(lines, k, last) ==
  IF k > last THEN <<>>
  ELSE LET line == lines[k]
           comment == CommentText(line)
           isComment == Includes(line, "//") \/ Includes(line, "/*")
                          \/ Includes(line, "*/")
       IN (IF isComment /\ comment # ""
           THEN <<[text |-> comment, lineNumber |-> k,
                   type |-> getCommentType(comment)]>>
           ELSE <<>>)
            \o ExtractCommentsFrom(lines, k + 1, last)

extractComments(fileDiff, functionLine) ==
  ExtractCommentsFrom(fileDiff,
                      IF functionLine - 5 > 1 THEN functionLine - 5 ELSE 1,
                      Min(Len(fileDiff), functionLine + 5))

\* lines 627-639 for the functions from index k on; findTestFiles finds no
\* test file next to the source file
RECURSIVE ChangesFrom(_, _, _, _)
ChangesFrom(filename, fileDiff, functions, k) ==
  IF k > Len(functions) THEN <<>>
  ELSE LET func == functions[k]
       IN <<[filePath |-> filename,
             functionName |-> func.name,
             functionBody |-> func.body,
             lineNumber |-> func.lineNumber,
             changeType |-> determineChangeType(func),
             comments |-> extractComments(fileDiff, func.lineNumber),
             testFiles |-> <<>>]>>
            \o ChangesFrom(filename, fileDiff, functions, k + 1)

parseFileDiff(filename, lines) ==
  LET fileDiff == extractFileDiff(lines, filename)
  IN IF IsEmptyText(fileDiff) THEN <<>>
     ELSE ChangesFrom(filename, fileDiff, extractFunctions(fileDiff), 1)

InitDiff ==
  /\ openai = FALSE
  /\ anthropic = FALSE
  /\ specCache = [key \in CacheKeys |-> <<>>]
  /\ backendCalls = [key \in CacheKeys |-> 0]
  /\ req = [r \in 1..MaxRequests |-> IdleReq]
  /\ pipe = IdlePipe
  /\ mock = IdleMock
  /\ parse = IdleParse
  /\ drift = IdleDrift
  /\ lean = IdleLean
  /\ \E filename \in Filenames :
       \E lines \in SeqsUpTo(DiffLines, MaxLines) :
         diff = [IdleDiff EXCEPT !.file = filename, !.diff = lines]
  /\ extracted = IdleAst
  /\ mapped = IdleMapped
  /\ feedback = IdleFeedback
  /\ emitted = IdleEmitted

ApplyDiff ==
  /\ ~diff.returned
  /\ diff' = [diff EXCEPT
       !.functionChanges = parseFileDiff(diff.file, diff.diff),
       !.returned = TRUE]
  /\ UNCHANGED <<openai, anthropic, specCache, backendCalls, req, pipe, mock,
                 parse, drift, lean, extracted, mapped,
                 feedback, emitted>>

SpecDiff == InitDiff /\ [][ApplyDiff]_vars

(***************************************************************************)
(* Claims about the diff parser (SpecDiff)                                 *)
(***************************************************************************)
\* the section of the file, as parseFileDiff hands it to extractFunctions
Section == extractFileDiff(diff.diff, diff.file)

FunctionStarts(lines) == { k \in 1..Len(lines) : FunctionMatch(lines[k]) # <<>> }

LoopsSet ==
  { [k \in 1..n |-> [type |-> "for_statement",
                     condition |-> ParamName(k) \o " < n"]]
    : n \in 0..MaxLoops }

FunctionNodes ==
  [inputTypes : {<<>>, FullNode.inputTypes},
   outputType : {"any"},
   conditionalGuards : GuardsSet,
   loops : LoopsSet,
   earlyReturns : EarlyReturnsSet]

AstChanges ==
  { Change(filePath, "f", JsArray(<<>>), node) :
      filePath \in {JsString("a.js"), JsString("m.go"), JsUndefined},
      node \in {<<>>} \cup { <<functionNode>> : functionNode \in FunctionNodes } }

InitAst ==
  /\ openai = FALSE
  /\ anthropic = FALSE
  /\ specCache = [key \in CacheKeys |-> <<>>]
  /\ backendCalls = [key \in CacheKeys |-> 0]
  /\ req = [r \in 1..MaxRequests |-> IdleReq]
  /\ pipe = IdlePipe
  /\ mock = IdleMock
  /\ parse = IdleParse
  /\ drift = IdleDrift
  /\ lean = IdleLean
  /\ diff = IdleDiff
  /\ \E change \in AstChanges : extracted = [change |-> <<change>>, result |-> <<>>]
  /\ mapped = IdleMapped
  /\ feedback = IdleFeedback
  /\ emitted = IdleEmitted

ApplyAst ==
  /\ extracted.result = <<>>
  /\ extracted' = [extracted EXCEPT
       !.result = <<analyzeFunction(extracted.change[1])>>]
  /\ UNCHANGED <<openai, anthropic, specCache, backendCalls, req, pipe, mock,
                 parse, drift, lean, diff, mapped, feedback, emitted>>

SpecAst == InitAst /\ [][ApplyAst]_vars

(***************************************************************************)
(* Claims about analyzeFunction (SpecAst)                                  *)
(***************************************************************************)
\* analyzeFunction returned an analysis
Analyzed == extracted.result # <<>> /\ ~extracted.result[1].threw

\* unknown language, parse failure or function node not found
Degraded(change) ==
  \/ Extname(change.filePath.s) \notin Parsers
  \/ change.node = <<>>

\* C15: the complexity of every analysis analyzeFunction returns is an
\* integer >= 1 equal to 1 + |conditionalGuards| + |loops| + |earlyReturns|
\* of that analysis; on the degraded path the collections are empty and the
\* complexity is 1.
C15_ComplexityIsOnePlusCounts ==
  Analyzed =>
    LET facts == extracted.result[1].analysis[1].ast
    IN /\ facts.complexity \in Nat
       /\ facts.complexity >= 1
       /\ facts.complexity = 1 + Len(facts.conditionalGuards)
                               + Len(facts.loops) + Len(facts.earlyReturns)
       /\ Degraded(extracted.change[1]) =>
            /\ facts.inputTypes = <<>>
            /\ facts.conditionalGuards = <<>>
            /\ facts.loops = <<>>
            /\ facts.earlyReturns = <<>>
            /\ facts.complexity = 1

C15_Witness ==
  /\ Analyzed
  /\ ~Degraded(extracted.change[1])
  /\ Len(extracted.result[1].analysis[1].ast.conditionalGuards) = 1
  /\ Len(extracted.result[1].analysis[1].ast.loops) = 2
  /\ Len(extracted.result[1].analysis[1].ast.earlyReturns) = 2
  /\ extracted.result[1].analysis[1].ast.complexity = 6

(***************************************************************************)
(* SpecRecord: one generateSpecSuggestion call on an empty cache, for      *)
(* every response of the bounds that the backend can settle with.          *)
(***************************************************************************)
RecordAnalyses == { analysis \in AnalysisSet : analysis.functionName = "f" }

RecordOutcomes == {Throws} \cup { Answers(response) : response \in Responses }

InitRecord ==
  /\ InitShared
  /\ \E analysis \in RecordAnalyses :
       \E outcome \in (IF SelectBackend(openai, anthropic) = "none" THEN {<<>>}
                       ELSE { <<o>> : o \in RecordOutcomes }) :
         req = [r \in 1..MaxRequests |->
                  IF r = 1 THEN [IdleReq EXCEPT !.analysis = <<analysis>>,
                                                !.outcome = outcome]
                  ELSE IdleReq]
  /\ pipe = IdlePipe
  /\ mock = IdleMock
  /\ parse = IdleParse
  /\ drift = IdleDrift
  /\ lean = IdleLean
  /\ diff = IdleDiff
  /\ extracted = IdleAst
  /\ mapped = IdleMapped
  /\ feedback = IdleFeedback
  /\ emitted = IdleEmitted

\* generateSpecSuggestion from its call to its return, the backend call
\* settling with the outcome drawn for it
ApplyRecord ==
  /\ req[1].pc = "idle"
  /\ LET analysis == req[1].analysis[1]
         entry == SuggestionEntry(specCache, analysis)
         backend == SelectBackend(openai, anthropic)
         ret == SuggestionReturn(analysis, backend,
                                 OutcomeOf(backend, req[1].outcome))
     IN CASE entry = "hit" ->
               /\ req' = [req EXCEPT ![1].pc = "done", ![1].hit = TRUE,
                    ![1].result = [threw |-> FALSE,
                                   suggestion |-> specCache[CacheKey(analysis)],
                                   llm |-> NotCalled]]
               /\ UNCHANGED <<specCache, backendCalls>>
          [] entry = "throws" ->
               /\ req' = [req EXCEPT ![1].pc = "done",
                    ![1].result = [threw |-> TRUE, suggestion |-> <<>>,
                                   llm |-> NotCalled]]
               /\ UNCHANGED <<specCache, backendCalls>>
          [] OTHER ->
               /\ req' = [req EXCEPT ![1].pc = "done",
                    ![1].backend = backend,
                    ![1].invoked = IF backend = "none" THEN <<>>
                                   ELSE <<backend>>,
                    ![1].result = ret]
               /\ specCache' = IF ret.threw THEN specCache
                               ELSE [specCache EXCEPT
                                       ![CacheKey(analysis)] = ret.suggestion]
               /\ backendCalls' = IF backend = "none" THEN backendCalls
                                  ELSE [backendCalls EXCEPT
                                          ![CacheKey(analysis)] = @ + 1]
  /\ UNCHANGED <<openai, anthropic, pipe, mock, parse, drift, lean, diff,
                 extracted, mapped,
                 feedback, emitted>>

SpecRecord == InitRecord /\ [][ApplyRecord]_vars

(***************************************************************************)
(* Claims about the record generateSpecSuggestion returns (SpecRecord)     *)
(***************************************************************************)
\* the call of the specification returned a record
Recorded == Done(1) /\ ~req[1].result.threw

\* the backend answered the call with a JSON object
AnsweredJson ==
  /\ req[1].invoked # <<>>
  /\ req[1].outcome[1].kind = "answers"
  /\ req[1].outcome[1].response.kind = "json"

Range(list) == { list[k] : k \in 1..Len(list) }

EntriesOf(spec) ==
  Range(spec.preconditions) \cup Range(spec.postconditions)
    \cup Range(spec.invariants) \cup Range(spec.edgeCases)

\* every text a list of a record can hold: those of the responses and those
\* of the fallback specs
ListEntries ==
  {"x is positive", "result is positive", "x is unchanged", "x is zero"}
    \cup EntriesOf(generateMockSpec(EmptyContext))
    \cup UNION { EntriesOf(generateMockSpec(prepareLLMContext(analysis))) :
                   analysis \in RecordAnalyses }

\* C16: the four list fields of every record generateSpecSuggestion returns
\* are lists, whatever the backend gave for them (nothing, or a value that
\* is no list).
C16_ListFieldsAreLists ==
  Recorded =>
    \A field \in ListFields :
      req[1].result.suggestion[1][field] \in Seq(ListEntries)

C16_Witness ==
  /\ Recorded
  /\ AnsweredJson
  /\ MissingFields(req[1].outcome[1].response.obj) = {}
  /\ req[1].outcome[1].response.obj.preconditions = JsString("x is positive")
  /\ req[1].outcome[1].response.obj.edgeCases = JsArray(<<"x is zero">>)
  /\ req[1].result.suggestion[1].preconditions = <<>>
  /\ req[1].result.suggestion[1].edgeCases = <<"x is zero">>

\* the spec the record was built from is a fallback spec, not the response
FromFallback ==
  req[1].result.llm.spec[1] \in
    { generateMockSpec(prepareLLMContext(req[1].analysis[1])),
      generateMockSpec(EmptyContext) }

\* C18: a response without a numeric confidence or without a rationale is
\* rejected (or raises); no record is built from it with a default put in
\* place of the missing value.
C18_NoSilentDefault ==
  (/\ Recorded
   /\ AnsweredJson
   /\ \/ req[1].outcome[1].response.obj.confidence.t # "number"
      \/ ~Truthy(req[1].outcome[1].response.obj.reasoning))
    => FromFallback

\* C19: every record carries, besides the four lists, confidence and
\* rationale, the complexity estimate and the security analysis of the spec
\* it was built from and a provenance marker.
C19_FullRecordShape ==
  Recorded =>
    LET record == req[1].result.suggestion[1]
        spec == req[1].result.llm.spec[1]
    IN /\ ListFields \cup {"confidence", "reasoning"} \subseteq DOMAIN record
       /\ "complexity" \in DOMAIN record
       /\ record.complexity = spec.complexity
       /\ "security" \in DOMAIN record
       /\ record.security = spec.security
       /\ "provenance" \in DOMAIN record

(***************************************************************************)
(* Claims about the cache across events (Spec)                             *)
(***************************************************************************)
\* request r0 returned a record before request r was made, for the same
\* functionKey and from other facts
FactsChangedSince(r0, r) ==
  /\ r0 < r
  /\ Done(r0) /\ ~req[r0].result.threw
  /\ r0 \notin req[r].during
  /\ KeyOf(r0) = KeyOf(r)
  /\ req[r0].analysis[1].ast # req[r].analysis[1].ast

\* C17: when a function is synthesized again after its facts changed, the
\* cached record of its key is replaced by a newly synthesized one: the call
\* is not answered with the record made from the earlier facts.
C17_CacheOverwrittenOnUpdate ==
  \A r \in Requests : \A r0 \in Requests :
    (Done(r) /\ ~req[r].result.threw /\ FactsChangedSince(r0, r))
      => /\ ~req[r].hit
         /\ req[r].result.suggestion # req[r0].result.suggestion

(***************************************************************************)
(* Claims about parseLLMResponse (SpecParse), continued                    *)
(***************************************************************************)
\* the four list fields are lists and the confidence is a number in [0,100]
WellFormedResponse(obj) ==
  /\ \A field \in ListFields : IsArray(obj[field])
  /\ obj.confidence.t = "number"
  /\ obj.confidence.n >= 0
  /\ obj.confidence.n <= 100

\* C20: a JSON response with the four lists and a numeric confidence in
\* [0,100] is accepted: the lists and the confidence of the spec returned
\* are those of the response, also for confidence 0 and for empty lists.
C20_WellFormedResponseAccepted ==
  (/\ parse.spec # <<>>
   /\ parse.response.kind = "json"
   /\ WellFormedResponse(parse.response.obj))
    => /\ \A field \in ListFields :
            parse.spec[1][field] = parse.response.obj[field].l
       /\ parse.spec[1].confidence = parse.response.obj.confidence.n

(***************************************************************************)
(* Lean4Generator.mapTypeToLean (src/unnamed/part_000).  The Lean symbols  *)
(* the code writes outside ASCII are spelled in ASCII here: "Nat", "Int",  *)
(* "Real" for the blackboard-bold N, Z, R and "alpha" for the Greek letter.*)
(***************************************************************************)
\* the upper-case letters of the type names of the model, with their lower case
UpperToLower ==
  [c \in {"A", "O", "T", "U"} |->
     CASE c = "A" -> "a" [] c = "O" -> "o" [] c = "T" -> "t" [] OTHER -> "u"]

\* String.prototype.toLowerCase
RECURSIVE toLowerCase(_)
toLowerCase(text) ==
  IF text = "" THEN ""
  ELSE LET c == SubSeq(text, 1, 1)
       IN (IF c \in DOMAIN UpperToLower THEN UpperToLower[c] ELSE c)
            \o toLowerCase(Rest(text))

\* this.typeMap of the constructor: <<>> when the key is absent
typeMap(key) ==
  CASE key = "number" -> <<"Nat">>
    [] key = "int" -> <<"Int">>
    [] key = "float" -> <<"Real">>
    [] key = "string" -> <<"String">>
    [] key = "boolean" -> <<"Bool">>
    [] key = "array" -> <<"List">>
    [] key = "object" -> <<"Object">>
    [] key = "any" -> <<"alpha">>
    [] OTHER -> <<>>

\* .replace(/array|\[\]/g, '')
RECURSIVE RemoveArrayMarks(_)
RemoveArrayMarks(text) ==
  IF text = "" THEN ""
  ELSE IF startsWith(text, "array")
  THEN RemoveArrayMarks(SubSeq(text, 6, Len(text)))
  ELSE IF startsWith(text, "[]")
  THEN RemoveArrayMarks(SubSeq(text, 3, Len(text)))
  ELSE SubSeq(text, 1, 1) \o RemoveArrayMarks(Rest(text))

RECURSIVE mapTypeToLean(_)
mapTypeToLean(type) ==
  LET normalizedType == toLowerCase(type)
  IN IF typeMap(normalizedType) # <<>> THEN typeMap(normalizedType)[1]
     ELSE IF Includes(normalizedType, "array") \/ Includes(normalizedType, "[]")
     THEN LET elementType == TrimEnd(TrimStart(RemoveArrayMarks(normalizedType)))
          IN "List " \o mapTypeToLean(elementType)
     ELSE IF Includes(normalizedType, "object") \/ Includes(normalizedType, "{}")
     THEN "Object"
     ELSE "alpha"

(***************************************************************************)
(* SpecType: mapTypeToLean applied to one type name.  A type name is a     *)
(* base name wrapped up to MaxNesting times as an array, written with the  *)
(* suffix [] or as Array<...>.                                             *)
(***************************************************************************)
BaseTypes ==
  {"number", "string", "boolean", "any", "int", "float", "object", "array",
   "customType", "UserObject"}

\* `wraps` lists the array notations from the innermost outwards
TypeShapes ==
  [base : BaseTypes, wraps : SeqsUpTo({"suffix", "generic"}, MaxNesting)]

RECURSIVE Written(_)
Written(shape) ==
  IF shape.wraps = <<>> THEN shape.base
  ELSE LET inner == Written([shape EXCEPT
                               !.wraps = SubSeq(@, 1, Len(@) - 1)])
       IN IF shape.wraps[Len(shape.wraps)] = "suffix" THEN inner \o "[]"
          ELSE "Array<" \o inner \o ">"

InitType ==
  /\ openai = FALSE
  /\ anthropic = FALSE
  /\ specCache = [key \in CacheKeys |-> <<>>]
  /\ backendCalls = [key \in CacheKeys |-> 0]
  /\ req = [r \in 1..MaxRequests |-> IdleReq]
  /\ pipe = IdlePipe
  /\ mock = IdleMock
  /\ parse = IdleParse
  /\ drift = IdleDrift
  /\ lean = IdleLean
  /\ diff = IdleDiff
  /\ extracted = IdleAst
  /\ \E shape \in TypeShapes :
       mapped = [type |-> Written(shape), of |-> <<shape>>, leanType |-> <<>>]
  /\ feedback = IdleFeedback
  /\ emitted = IdleEmitted

ApplyType ==
  /\ mapped.leanType = <<>>
  /\ mapped' = [mapped EXCEPT !.leanType = <<mapTypeToLean(mapped.type)>>]
  /\ UNCHANGED <<openai, anthropic, specCache, backendCalls, req, pipe, mock,
                 parse, drift, lean, diff, extracted, feedback, emitted>>

SpecType == InitType /\ [][ApplyType]_vars

(***************************************************************************)
(* Claims about mapTypeToLean (SpecType)                                   *)
(***************************************************************************)
\* the table of the claim: the three named types, alpha for a name that is
\* in no table
TableOf(base) ==
  CASE base = "number" -> "Nat"
    [] base = "string" -> "String"
    [] base = "boolean" -> "Bool"
    [] OTHER -> "alpha"

\* the type names the claim speaks of: the three named types and the names
\* that no table holds, under every array notation
InTable(shape) == shape.base \in {"number", "string", "boolean", "customType"}

RECURSIVE ListOf(_)
ListOf(shape) ==
  IF shape.wraps = <<>> THEN TableOf(shape.base)
  ELSE "List " \o ListOf([shape EXCEPT !.wraps = SubSeq(@, 1, Len(@) - 1)])

\* C21: number, string and boolean map to Nat, String and Bool, a name in no
\* table maps to alpha, and an array of element type T, written T[] or
\* Array<T>, maps to "List " followed by the mapping of T.
C21_ArrayMapsToListOfElement ==
  (mapped.leanType # <<>> /\ InTable(mapped.of[1]))
    => mapped.leanType[1] = ListOf(mapped.of[1])

\* the part of C21 that holds: a base name, and one level of the suffix
\* notation
C21_SuffixArrayMapsToList ==
  (/\ mapped.leanType # <<>>
   /\ InTable(mapped.of[1])
   /\ mapped.of[1].wraps \in {<<>>, <<"suffix">>})
    => mapped.leanType[1] = ListOf(mapped.of[1])

(***************************************************************************)
(* Claims about generateMockSpec (SpecMock), continued                     *)
(***************************************************************************)
\* C22: the invariants list of the fallback spec has exactly one entry when
\* complexity > 5 and no entry when complexity <= 5.
C22_OneInvariantIffComplex ==
  mock.spec # <<>> =>
    Len(mock.spec[1].invariants) =
      IF mock.context.complexity > 5 THEN 1 ELSE 0

\* the part of C22 that holds: the entry derived from the complexity is
\* there exactly when complexity > 5
C22_ConsistencyEntryIffComplex ==
  mock.spec # <<>> =>
    (mock.context.complexity > 5 <=>
       mock.spec[1].invariants =
         <<"Function maintains internal state consistency">>)

\* the values the early returns return
ReturnedValues(earlyReturns) ==
  { earlyReturns[k].value : k \in 1..Len(earlyReturns) } \ {""}

\* C28: the fallback spec has exactly one postcondition per distinct
\* early-return value: k early returns of one value give one postcondition.
C28_OnePostconditionPerDistinctValue ==
  (mock.spec # <<>> /\ ReturnedValues(mock.context.earlyReturns) # {})
    => Len(mock.spec[1].postconditions) =
         Cardinality(ReturnedValues(mock.context.earlyReturns))

(***************************************************************************)
(* Claims about the diff parser (SpecDiff), continued                      *)
(***************************************************************************)
\* opening minus closing braces of the lines k..j, every line counted once
RECURSIVE BalanceAt(_, _, _)
BalanceAt(lines, k, j) ==
  IF j < k THEN 0 ELSE BalanceAt(lines, k, j - 1) + countBraces(lines[j])

\* the lines at which the balance of a capture opened at line k is back at
\* zero after a brace has been opened
ClosingLines(lines, k) ==
  { j \in k..Len(lines) :
      /\ BalanceAt(lines, k, j) = 0
      /\ \E i \in k..j : CountChar(lines[i], "{") > 0 }

FirstOf(S) == CHOOSE j \in S : \A i \in S : j <= i

\* C23: a capture opened on a function-start line is closed at the first
\* line at which its brace balance, start line counted once, is back at zero
\* after having been positive: the lines after that line are not in the body.
\* (The body is compared from its second entry on: its first entry is the
\* start line a second time.)
C23_CaptureClosesOnBalance ==
  diff.returned =>
    \A n \in 1..Len(diff.functionChanges) :
      LET change == diff.functionChanges[n]
          k == change.lineNumber
          closing == ClosingLines(Section, k)
      IN (/\ closing # {}
          /\ \A i \in (k + 1)..FirstOf(closing) : i \notin FunctionStarts(Section))
           => Tail(change.functionBody) = SubSeq(Section, k, FirstOf(closing))

\* the part of C23 that holds: a one-line function with balanced braces is
\* closed on its start line
C23_OneLineCaptureCloses ==
  diff.returned =>
    \A n \in 1..Len(diff.functionChanges) :
      LET change == diff.functionChanges[n]
      IN countBraces(Section[change.lineNumber]) = 0
           => Tail(change.functionBody) = <<Section[change.lineNumber]>>

\* C26: extractFunctions returns exactly one entry per line matching a
\* function-start signature, in order of appearance: also for a function
\* whose closing brace is not in the hunk, and none twice or lost.
C26_OneEntryPerFunctionStart ==
  diff.returned =>
    /\ Len(diff.functionChanges) = Cardinality(FunctionStarts(Section))
    /\ \A n \in 1..Len(diff.functionChanges) :
         LET change == diff.functionChanges[n]
         IN /\ change.lineNumber \in FunctionStarts(Section)
            /\ change.functionName =
                 FunctionMatch(Section[change.lineNumber])[1].name
            /\ n > 1 => diff.functionChanges[n - 1].lineNumber < change.lineNumber

\* a function left open when the next one starts, a one-line function, and
\* a function left open at the end of the hunk
C26_Witness ==
  /\ diff.returned
  /\ diff.file = "a.js"
  /\ diff.diff = <<HeaderA, AddOpen, AddOneLine, AddOpen>>
  /\ Len(diff.functionChanges) = 3
  /\ diff.functionChanges[1].functionName = "sub"
  /\ diff.functionChanges[1].lineNumber = 1
  /\ diff.functionChanges[2].functionName = "add"
  /\ diff.functionChanges[2].lineNumber = 2
  /\ diff.functionChanges[3].functionName = "sub"
  /\ diff.functionChanges[3].lineNumber = 3

\* the `diff --git` line of the section of a file
HeaderOf(filename) == "diff --git a/" \o filename \o " b/" \o filename

\* the lines of the section whose `diff --git` line names the file (the last
\* one, when there are several): <<>> when there is none
SectionOf(lines, filename) ==
  LET named == { k \in 1..Len(lines) : lines[k] = HeaderOf(filename) }
  IN IF named = {} THEN <<>>
     ELSE LET k == CHOOSE h \in named : \A g \in named : g <= h
              next == { j \in (k + 1)..Len(lines) :
                          startsWith(lines[j], "diff --git") }
          IN SubSeq(lines, k + 1,
                    IF next = {} THEN Len(lines) ELSE FirstOf(next) - 1)

\* two sequences of lines that join('\n') makes the same text
SameText(a, b) == a = b \/ (IsEmptyText(a) /\ IsEmptyText(b))

\* C27: extractFileDiff(diff, f) returns exactly the lines of the section
\* whose `diff --git` line names f, never those of a file whose path only
\* contains f, and the empty text when the diff has no section for f.
C27_SectionOfNamedFile ==
  diff.returned =>
    SameText(extractFileDiff(diff.diff, diff.file),
             SectionOf(diff.diff, diff.file))

\* the part of C27 that holds: a file whose name is in no other path of the
\* diff gets the lines of its own section
C27_SectionOfLongestName ==
  (diff.returned /\ diff.file = "xa.js")
    => SameText(extractFileDiff(diff.diff, diff.file),
                SectionOf(diff.diff, diff.file))

(***************************************************************************)
(* Claims about the record generateSpecSuggestion returns (SpecRecord),    *)
(* continued                                                               *)
(***************************************************************************)
\* the backend answered the call and parseLLMResponse rejected the answer
AnsweredRejected ==
  /\ req[1].invoked # <<>>
  /\ req[1].outcome[1].kind = "answers"
  /\ \/ req[1].outcome[1].response.kind # "json"
     \/ MissingFields(req[1].outcome[1].response.obj) # {}

\* C25: when a backend answers and its response is rejected, the spec
\* generateSpec returns is generateMockSpec applied to the context of the
\* request, not to empty facts.
C25_RejectedFallsBackOnRequestFacts ==
  (Recorded /\ AnsweredRejected)
    => req[1].result.llm.spec[1] =
         generateMockSpec(prepareLLMContext(req[1].analysis[1]))

\* the part of C25 that holds: when the backend call raises, the fallback is
\* derived from the facts of the request
C25_RaisedFallsBackOnRequestFacts ==
  (/\ Recorded
   /\ req[1].invoked # <<>>
   /\ req[1].outcome[1].kind = "throws")
    => req[1].result.llm.spec[1] =
         generateMockSpec(prepareLLMContext(req[1].analysis[1]))

(***************************************************************************)
(* Lean4Generator.generateLean4File (src/unnamed/part_000) and the reader  *)
(* of the files it writes, SpecCoverageTracker.parseSpecFile               *)
(* (src/src/spec-coverage.js).  The file is a string and the regular       *)
(* expressions are computed on it.  The symbols outside ASCII are spelled  *)
(* "forall", "&", "->", "<=" for the quantifier, the conjunction, the      *)
(* arrow and the less-or-equal sign, in the writer and in the reader.      *)
(***************************************************************************)
\* Array.prototype.join
RECURSIVE Join(_, _)
Join(list, separator) ==
  IF list = <<>> THEN ""
  ELSE IF Len(list) = 1 THEN list[1]
  ELSE list[1] \o separator \o Join(Tail(list), separator)

\* the positions from `from` on at which the part occurs in the text
Occurrences(text, part, from) ==
  { i \in from..(Len(text) - Len(part) + 1) :
      SubSeq(text, i, i + Len(part) - 1) = part }

\* String.prototype.indexOf, from 1; 0 when the part does not occur
IndexOf(text, part, from) ==
  LET found == Occurrences(text, part, from)
  IN IF found = {} THEN 0 ELSE FirstOf(found)

\* .replace('O', 'f'): the first occurrence only
ReplaceFirst(text, pattern, replacement) ==
  LET i == IndexOf(text, pattern, 1)
  IN IF i = 0 THEN text
     ELSE SubSeq(text, 1, i - 1) \o replacement
            \o SubSeq(text, i + Len(pattern), Len(text))

\* inputTypes.map(...).join(' ') of lines 172 and 278
RECURSIVE ParamsFrom(_)
ParamsFrom(inputTypes) ==
  IF inputTypes = <<>> THEN <<>>
  ELSE <<Head(inputTypes).name \o " : " \o mapTypeToLean(Head(inputTypes).type)>>
         \o ParamsFrom(Tail(inputTypes))

RECURSIVE NamesFrom(_)
NamesFrom(inputTypes) ==
  IF inputTypes = <<>> THEN <<>>
  ELSE <<Head(inputTypes).name>> \o NamesFrom(Tail(inputTypes))

RECURSIVE InputDefinitions(_)
InputDefinitions(inputTypes) ==
  IF inputTypes = <<>> THEN <<>>
  ELSE <<"def " \o Head(inputTypes).name \o " : "
           \o mapTypeToLean(Head(inputTypes).type) \o " := sorry">>
         \o InputDefinitions(Tail(inputTypes))

generateTypeDefinitions(inputTypes, outputType) ==
  Join(InputDefinitions(inputTypes)
         \o <<"def expected_output : " \o mapTypeToLean(outputType)
                \o " := sorry">>,
       "\n")

\* no type of the model is in complexTypeMap: no definition is emitted
generateAuxiliaryDefinitions(inputTypes, outputType) == ""

generateTheoremStatement(functionName, inputTypes, outputType, preconditions, postconditions) ==
  "@[spec]\ntheorem " \o functionName \o "_spec ("
    \o Join(ParamsFrom(inputTypes), " ") \o ") : \n  forall (h_pre : "
    \o Join(convertToLeanPredicates(preconditions), " & ") \o ") : \n"
    \o "  let result := " \o functionName \o " "
    \o Join(NamesFrom(inputTypes), " ") \o ";\n  "
    \o Join(convertToLeanPredicates(postconditions), " & ") \o " & \n"
    \o "  result : " \o mapTypeToLean(outputType) \o " := by\n"
    \o "  -- Proof tactics will be generated here\n  sorry"

generateProofSkeleton(functionName, inputTypes, outputType) ==
  "def " \o functionName \o " (" \o Join(ParamsFrom(inputTypes), " ")
    \o ") : " \o mapTypeToLean(outputType) \o " := by\n"
    \o "  -- TODO: Implement function body\n"
    \o "  -- This is a skeleton for the actual implementation\n"
    \o "  -- The real implementation would be extracted from the source code\n"
    \o "  sorry"

RECURSIVE PreconditionTactics(_, _)
PreconditionTactics(preconditions, index) ==
  IF index >= Len(preconditions) THEN <<>>
  ELSE <<"have h_pre_" \o ToString(index) \o " := h_pre."
           \o ToString(index + 1)>>
         \o PreconditionTactics(preconditions, index + 1)

RECURSIVE PostconditionTactics(_)
PostconditionTactics(postconditions) ==
  IF postconditions = <<>> THEN <<>>
  ELSE <<"-- TODO: Prove " \o Head(postconditions), "sorry">>
         \o PostconditionTactics(Tail(postconditions))

\* line 205 is a quoted string, not a template: the text is kept as written
generateProofTactics(functionName, preconditions, postconditions) ==
  Join(<<"-- Basic proof structure", "intro h_pre", "unfold ${functionName}">>
         \o (IF Len(preconditions) > 0
             THEN <<"-- Handle preconditions">>
                    \o PreconditionTactics(preconditions, 0)
             ELSE <<>>)
         \o (IF Len(postconditions) > 0
             THEN <<"-- Prove postconditions">>
                    \o PostconditionTactics(postconditions)
             ELSE <<>>),
       "\n  ")

RECURSIVE SecurityLemmasFrom(_, _)
SecurityLemmasFrom(vulnerabilities, index) ==
  IF index >= Len(vulnerabilities) THEN <<>>
  ELSE <<"-- Security Lemma: " \o vulnerabilities[index + 1]
           \o "\nlemma security_lemma_" \o ToString(index + 1)
           \o " : forall (input : InputType), \n"
           \o "  (isValidInput input) -> \n"
           \o "  (isSecureInput input) := by\n"
           \o "  intro input\n"
           \o "  intro h_valid h_secure\n"
           \o "  -- Proof that input validation prevents vulnerability\n"
           \o "  sorry">>
         \o SecurityLemmasFrom(vulnerabilities, index + 1)

generateSecurityLemmas(security) ==
  SecurityLemmasFrom(security.vulnerabilities, 0)

generatePerformanceLemmas(complexity) ==
  (IF complexity.time # ""
   THEN <<"-- Performance Lemma: Time Complexity\n"
            \o "lemma time_complexity_bound : forall (input : InputType), \n"
            \o "  (inputSize input <= n) -> \n"
            \o "  (executionTime input <= "
            \o ReplaceFirst(complexity.time, "O", "f") \o " n) := by\n"
            \o "  intro input\n"
            \o "  intro h_size\n"
            \o "  -- Proof of time complexity bound\n"
            \o "  sorry">>
   ELSE <<>>)
  \o (IF complexity.space # ""
      THEN <<"-- Performance Lemma: Space Complexity\n"
               \o "lemma space_complexity_bound : forall (input : InputType), \n"
               \o "  (inputSize input <= n) -> \n"
               \o "  (memoryUsage input <= "
               \o ReplaceFirst(complexity.space, "O", "g") \o " n) := by\n"
               \o "  intro input\n"
               \o "  intro h_size\n"
               \o "  -- Proof of space complexity bound\n"
               \o "  sorry">>
      ELSE <<>>)

generateLean4Theorem(spec, context) ==
  [typeDefinitions |->
     generateTypeDefinitions(context.inputTypes, context.outputType),
   auxiliaryDefinitions |->
     generateAuxiliaryDefinitions(context.inputTypes, context.outputType),
   theorem |->
     generateTheoremStatement(context.functionName, context.inputTypes,
                              context.outputType, spec.preconditions,
                              spec.postconditions),
   helperLemmas |-> generateHelperLemmas(spec.invariants, spec.edgeCases),
   securityLemmas |-> generateSecurityLemmas(spec.security),
   performanceLemmas |-> generatePerformanceLemmas(spec.complexity),
   proofSkeleton |->
     generateProofSkeleton(context.functionName, context.inputTypes,
                           context.outputType),
   proofTactics |->
     generateProofTactics(context.functionName, spec.preconditions,
                          spec.postconditions)]

\* new Date().toISOString() at the time the file is written
Now == "2024-01-01T00:00:00.000Z"

generateLean4File(spec, context) ==
  LET lean4Content == generateLean4Theorem(spec, context)
  IN "-- SpecSync Generated Lean4 Specification\n"
       \o "-- Function: " \o context.functionName \o "\n"
       \o "-- Confidence: " \o ToString(spec.confidence) \o "%\n"
       \o "-- Generated: " \o Now \o "\n"
       \o "-- Track C: Autoformalization Engine\n\n"
       \o "import Mathlib.Data.Nat.Basic\n"
       \o "import Mathlib.Data.String.Basic\n"
       \o "import Mathlib.Logic.Basic\n"
       \o "import Mathlib.Data.Real.Basic\n"
       \o "import Mathlib.Data.Bool.Basic\n\n"
       \o "-- Auxiliary Definitions\n"
       \o lean4Content.auxiliaryDefinitions \o "\n\n"
       \o "-- Type Definitions\n"
       \o lean4Content.typeDefinitions \o "\n\n"
       \o "-- Helper Lemmas\n"
       \o Join(lean4Content.helperLemmas, "\n\n") \o "\n\n"
       \o "-- Security Lemmas\n"
       \o Join(lean4Content.securityLemmas, "\n\n") \o "\n\n"
       \o "-- Performance Lemmas\n"
       \o Join(lean4Content.performanceLemmas, "\n\n") \o "\n\n"
       \o "-- Main Theorem\n"
       \o lean4Content.theorem \o "\n\n"
       \o "-- Proof Tactics\n"
       \o lean4Content.proofTactics \o "\n\n"
       \o "-- Implementation Skeleton\n"
       \o lean4Content.proofSkeleton \o "\n\n"
       \o "-- End of SpecSync Generated Code"

\* \s of String.prototype.trim
WhiteSpace == {" ", "\t", "\n"}

RECURSIVE trim(_)
trim(text) ==
  IF text = "" THEN ""
  ELSE IF SubSeq(text, 1, 1) \in WhiteSpace THEN trim(Rest(text))
  ELSE IF SubSeq(text, Len(text), Len(text)) \in WhiteSpace
  THEN trim(SubSeq(text, 1, Len(text) - 1))
  ELSE text

\* String.prototype.split for a one-character separator
RECURSIVE Split(_, _)
Split(text, separator) ==
  LET i == IndexOf(text, separator, 1)
  IN IF i = 0 THEN <<text>>
     ELSE <<SubSeq(text, 1, i - 1)>>
            \o Split(SubSeq(text, i + 1, Len(text)), separator)

\* the length of the run of digits that starts at position i
RECURSIVE DigitRun(_, _)
DigitRun(text, i) ==
  IF i <= Len(text) /\ SubSeq(text, i, i) \in Digits
  THEN 1 + DigitRun(text, i + 1)
  ELSE 0

DigitValue(c) ==
  CASE c = "0" -> 0 [] c = "1" -> 1 [] c = "2" -> 2 [] c = "3" -> 3
    [] c = "4" -> 4 [] c = "5" -> 5 [] c = "6" -> 6 [] c = "7" -> 7
    [] c = "8" -> 8 [] OTHER -> 9

\* parseInt of a run of digits
RECURSIVE parseInt(_)
parseInt(digits) ==
  IF digits = "" THEN 0
  ELSE 10 * parseInt(SubSeq(digits, 1, Len(digits) - 1))
         + DigitValue(SubSeq(digits, Len(digits), Len(digits)))

\* content.match(/-- Confidence: (\d+)%/): <<>> or <<group 1>>
ConfidenceMatch(content) ==
  LET label == "-- Confidence: "
      found == { i \in Occurrences(content, label, 1) :
                   LET run == DigitRun(content, i + Len(label))
                   IN /\ run > 0
                      /\ SubSeq(content, i + Len(label) + run,
                                i + Len(label) + run) = "%" }
  IN IF found = {} THEN <<>>
     ELSE LET i == FirstOf(found)
          IN <<SubSeq(content, i + Len(label),
                      i + Len(label) + DigitRun(content, i + Len(label)) - 1)>>

\* text.match(/head.*?mid(.*?)tail/s) for literal head, mid and tail: the
\* first head, the first mid after it and the first tail after that mid;
\* when these do not exist no later start matches.  <<>> or <<group 1>>
LazyMatch(text, head, mid, tail) ==
  LET i == IndexOf(text, head, 1)
      j == IF i = 0 THEN 0 ELSE IndexOf(text, mid, i + Len(head))
      k == IF j = 0 THEN 0 ELSE IndexOf(text, tail, j + Len(mid))
  IN IF k = 0 THEN <<>> ELSE <<SubSeq(text, j + Len(mid), k - 1)>>

\* lines 588-593 for the parts from the first on
RECURSIVE PredicatesFrom(_)
PredicatesFrom(parts) ==
  IF parts = <<>> THEN <<>>
  ELSE LET clean == trim(Head(parts))
       IN (IF clean # "" /\ ~Includes(clean, "sorry") THEN <<clean>> ELSE <<>>)
            \o PredicatesFrom(Tail(parts))

parsePredicates(predicateString) == PredicatesFrom(Split(predicateString, "&"))

parseSpecFile(content) ==
  LET confidenceMatch == ConfidenceMatch(content)
      theoremMatch == LazyMatch(content, "theorem", ":", " :=")
      precondMatch == IF theoremMatch = <<>> THEN <<>>
                      ELSE LazyMatch(theoremMatch[1], "forall", ":", "->")
  IN [preconditions |-> IF precondMatch = <<>> THEN <<>>
                        ELSE parsePredicates(precondMatch[1]),
      postconditions |-> <<>>,
      invariants |-> <<>>,
      edgeCases |-> <<>>,
      confidence |-> IF confidenceMatch = <<>> THEN 0
                     ELSE parseInt(confidenceMatch[1])]

\* lines 525-540 over the contents of the spec files: <<>> (null) or <<spec>>
RECURSIVE findExistingSpec(_, _)
findExistingSpec(specFiles, functionName) ==
  IF specFiles = <<>> THEN <<>>
  ELSE IF Includes(Head(specFiles), "Function: " \o functionName)
  THEN <<parseSpecFile(Head(specFiles))>>
  ELSE findExistingSpec(Tail(specFiles), functionName)

\* what compareWithSpec reads in a record: a property the record does not
\* have is undefined
Fingerprint(spec) ==
  [complexity |-> IF "complexity" \in DOMAIN spec
                  THEN JsNumber(spec.complexity) ELSE JsUndefined,
   hasValidation |-> IF "hasValidation" \in DOMAIN spec
                     THEN JsBoolean(spec.hasValidation) ELSE JsNoBoolean]

\* lines 468-477 of detectDrift for one function
detectDrift(result) == IF result.hasDrift THEN <<result>> ELSE <<>>

(***************************************************************************)
(* SpecBaseline: the Lean4 file of a spec is written, then detectDrift     *)
(* runs on a function: analyzeFunctionDrift looks the baseline up in the   *)
(* file (findExistingSpec, an await) and compares the function's body      *)
(* with it.                                                                *)
(***************************************************************************)
PreconditionTexts ==
  {"a is of type number", "a is not null/undefined", "a > 0"}

Confidences == {0, 7, 85, 100}

BaselineSpecs ==
  [preconditions : SeqsUpTo(PreconditionTexts, MaxPreconditions),
   postconditions : {<<"Result is true">>},
   invariants : {<<>>},
   edgeCases : {<<"x is not null/undefined">>},
   complexity : {[time |-> "O(n)", space |-> "O(1)"]},
   security : {MockSecurity},
   confidence : Confidences,
   reasoning : {"analysis"}]

BaselineContexts ==
  [functionName : {"f"},
   inputTypes : {<<>>, <<[name |-> "a", type |-> "number"]>>},
   outputType : {"number"}]

BaselineBodies == {<<>>, <<"return">>, <<"if (", "throw", "\n", "return">>}

InitBaseline ==
  /\ openai = FALSE
  /\ anthropic = FALSE
  /\ specCache = [key \in CacheKeys |-> <<>>]
  /\ backendCalls = [key \in CacheKeys |-> 0]
  /\ req = [r \in 1..MaxRequests |-> IdleReq]
  /\ pipe = IdlePipe
  /\ mock = IdleMock
  /\ parse = IdleParse
  /\ drift = IdleDrift
  /\ lean = IdleLean
  /\ diff = IdleDiff
  /\ extracted = IdleAst
  /\ mapped = IdleMapped
  /\ feedback = IdleFeedback
  /\ \E spec \in BaselineSpecs : \E context \in BaselineContexts :
       \E functionName \in {"f", "g"} : \E functionBody \in BaselineBodies :
         emitted = [IdleEmitted EXCEPT
                      !.pc = "write", !.spec = <<spec>>,
                      !.context = <<context>>,
                      !.functionData = [functionName |-> functionName,
                                        functionBody |-> functionBody,
                                        filePath |-> "a.js"]]

\* generateLean4File, and the file stored in the specs directory
WriteSpecFile ==
  /\ emitted.pc = "write"
  /\ emitted' = [emitted EXCEPT
       !.pc = "find",
       !.content = generateLean4File(emitted.spec[1], emitted.context[1])]
  /\ UNCHANGED <<openai, anthropic, specCache, backendCalls, req, pipe, mock,
                 parse, drift, lean, diff, extracted, mapped, feedback>>

\* analyzeFunctionDrift up to the end of its await of findExistingSpec
DriftFind ==
  /\ emitted.pc = "find"
  /\ emitted' = [emitted EXCEPT
       !.pc = "compare",
       !.existingSpec = findExistingSpec(<<emitted.content>>,
                                         emitted.functionData.functionName)]
  /\ UNCHANGED <<openai, anthropic, specCache, backendCalls, req, pipe, mock,
                 parse, drift, lean, diff, extracted, mapped, feedback>>

\* the rest of analyzeFunctionDrift, and detectDrift keeping the result
DriftCompare ==
  /\ emitted.pc = "compare"
  /\ LET result ==
           analyzeFunctionDrift(
             emitted.functionData,
             IF emitted.existingSpec = <<>> THEN <<>>
             ELSE <<Fingerprint(emitted.existingSpec[1])>>)
     IN emitted' = [emitted EXCEPT
          !.pc = "done", !.drift = <<result>>,
          !.driftResults = detectDrift(result)]
  /\ UNCHANGED <<openai, anthropic, specCache, backendCalls, req, pipe, mock,
                 parse, drift, lean, diff, extracted, mapped, feedback>>

NextBaseline == WriteSpecFile \/ DriftFind \/ DriftCompare

SpecBaseline == InitBaseline /\ [][NextBaseline]_vars

(***************************************************************************)
(* Claims about the baseline of drift detection (SpecBaseline)             *)
(***************************************************************************)
\* the file of the function was found and read
BaselineRead == emitted.pc \in {"compare", "done"} /\ emitted.existingSpec # <<>>

\* C30: for a spec with an integer confidence in [0,100] and a non-empty
\* list of preconditions, parseSpecFile applied to the text generateLean4File
\* produced recovers the confidence and a preconditions list with one entry
\* per precondition of the spec.
C30_FileRoundTrip ==
  (BaselineRead /\ emitted.spec[1].preconditions # <<>>)
    => /\ emitted.existingSpec[1] = parseSpecFile(emitted.content)
       /\ emitted.existingSpec[1].confidence = emitted.spec[1].confidence
       /\ Len(emitted.existingSpec[1].preconditions) =
            Len(emitted.spec[1].preconditions)

\* the part of C30 that holds: the confidence is recovered
C30_ConfidenceRoundTrip ==
  BaselineRead =>
    emitted.existingSpec[1].confidence = emitted.spec[1].confidence

\* C24: a function with a stored baseline, found by findExistingSpec and read
\* by parseSpecFile, whose body has the complexity and the
\* validation-presence it had when the baseline was recorded, gets
\* hasDrift = false from analyzeFunctionDrift and is not reported by
\* detectDrift.  (The body of the run is the one the baseline was made for.)
C24_UnchangedFunctionHasNoDrift ==
  (emitted.pc = "done" /\ emitted.existingSpec # <<>>)
    => /\ ~emitted.drift[1].hasDrift
       /\ emitted.driftResults = <<>>

\* the part of C24 that holds: a function with no stored baseline is not
\* reported
C24_NoBaselineNoDrift ==
  (emitted.pc = "done" /\ emitted.existingSpec = <<>>)
    => /\ ~emitted.drift[1].hasDrift
       /\ emitted.driftResults = <<>>

(***************************************************************************)
(* DeveloperFeedback.processQueuedNotifications                            *)
(* (src/src/developer-feedback.js).  The loop of lines 712-718 iterates    *)
(* over this.notificationQueue itself, the array sendSlackNotification     *)
(* pushes to; the array iterator reads the length of the array at every    *)
(* step.  Each await is a step.                                            *)
(***************************************************************************)
Notifications == {"drift", "coverage"}

InitFeedback ==
  /\ openai = FALSE
  /\ anthropic = FALSE
  /\ specCache = [key \in CacheKeys |-> <<>>]
  /\ backendCalls = [key \in CacheKeys |-> 0]
  /\ req = [r \in 1..MaxRequests |-> IdleReq]
  /\ pipe = IdlePipe
  /\ mock = IdleMock
  /\ parse = IdleParse
  /\ drift = IdleDrift
  /\ lean = IdleLean
  /\ diff = IdleDiff
  /\ extracted = IdleAst
  /\ mapped = IdleMapped
  /\ \E slack \in BOOLEAN :
       \E notificationQueue \in SeqsUpTo(Notifications, MaxQueued) :
         feedback = [IdleFeedback EXCEPT
                       !.slack = slack,
                       !.notificationQueue = notificationQueue,
                       !.queued = notificationQueue]
  /\ emitted = IdleEmitted

\* lines 705-710: the call, up to the loop
ProcessStart ==
  /\ feedback.pc = "idle"
  /\ feedback' = [feedback EXCEPT
       !.pc = IF Len(feedback.notificationQueue) = 0 THEN "done" ELSE "loop"]
  /\ UNCHANGED <<openai, anthropic, specCache, backendCalls, req, pipe, mock,
                 parse, drift, lean, diff, extracted, mapped, emitted>>

\* lines 712-714 and 30-43: the iterator gives the next entry and
\* sendSlackNotification runs up to its return (no client: the notification
\* is pushed to the queue) or up to its await of postMessage
LoopNext ==
  /\ feedback.pc = "loop"
  /\ feedback.notificationQueue # <<>>
  /\ LET notification == Head(feedback.notificationQueue)
     IN feedback' =
          IF ~feedback.slack
          THEN [feedback EXCEPT
                  !.pc = "returned",
                  !.notificationQueue = Append(Tail(@), notification)]
          ELSE [feedback EXCEPT
                  !.pc = "post",
                  !.notificationQueue = Tail(@),
                  !.notification = <<notification>>]
  /\ UNCHANGED <<openai, anthropic, specCache, backendCalls, req, pipe, mock,
                 parse, drift, lean, diff, extracted, mapped, emitted>>

\* lines 40-49: postMessage settles; a rejection is caught and the
\* notification is pushed to the queue
PostSettles ==
  /\ feedback.pc = "post"
  /\ \E delivered \in BOOLEAN :
       feedback' =
         IF delivered
         THEN [feedback EXCEPT
                 !.pc = "returned", !.notification = <<>>,
                 !.sent = @ \cup {feedback.notification[1]}]
         ELSE [feedback EXCEPT
                 !.pc = "returned", !.notification = <<>>,
                 !.notificationQueue = Append(@, feedback.notification[1])]
  /\ UNCHANGED <<openai, anthropic, specCache, backendCalls, req, pipe, mock,
                 parse, drift, lean, diff, extracted, mapped, emitted>>

\* line 714: the await of sendSlackNotification resumes the loop
LoopResume ==
  /\ feedback.pc = "returned"
  /\ feedback' = [feedback EXCEPT !.pc = "loop"]
  /\ UNCHANGED <<openai, anthropic, specCache, backendCalls, req, pipe, mock,
                 parse, drift, lean, diff, extracted, mapped, emitted>>

\* lines 720-721: the iterator is at the end of the array
LoopEnd ==
  /\ feedback.pc = "loop"
  /\ feedback.notificationQueue = <<>>
  /\ feedback' = [feedback EXCEPT !.pc = "done", !.notificationQueue = <<>>]
  /\ UNCHANGED <<openai, anthropic, specCache, backendCalls, req, pipe, mock,
                 parse, drift, lean, diff, extracted, mapped, emitted>>

NextFeedback ==
  ProcessStart \/ LoopNext \/ PostSettles \/ LoopResume \/ LoopEnd

SpecFeedback == InitFeedback /\ [][NextFeedback]_vars

\* the event loop runs every continuation that is ready, and every call of
\* postMessage settles
FairFeedback == SpecFeedback /\ WF_vars(NextFeedback)

(***************************************************************************)
(* Claims about processQueuedNotifications (SpecFeedback, FairFeedback)    *)
(***************************************************************************)
\* C29: processQueuedNotifications terminates for every queue and every
\* state of Slack (no client, sends failing, sends succeeding).
C29_ProcessingTerminates == <>(feedback.pc = "done")

\* the part of C29 that holds: when processQueuedNotifications returns,
\* every notification that was in the queue has been sent or is in the queue
C29_NothingLost ==
  feedback.pc = "done" =>
    \A k \in 1..Len(feedback.queued) :
      \/ feedback.queued[k] \in feedback.sent
      \/ feedback.queued[k] \in Range(feedback.notificationQueue)

\* without a client the call never returns from a queue that is not empty:
\* every entry visited is pushed behind the iterator again
C29_NoClientNeverReturns ==
  (~feedback.slack /\ feedback.queued # <<>>)
    => /\ feedback.pc # "done"
       /\ Len(feedback.notificationQueue) = Len(feedback.queued)

====
